---- MODULE Spec2Model ----
(***************************************************************************)
(* Model of the CynerraVARM scan orchestration engine                      *)
(* (backend/app/services/scan_service.py, backend/app/utils/nmap_runner.py,*)
(* backend/app/utils/nmap_parser.py and backend/app/utils/risk_logic.py):  *)
(* target validation, the scan executor and its command line, the XML      *)
(* parser and its CVE extraction, the risk levels, the background scan     *)
(* worker, and the cancel / delete / read / statistics operations on       *)
(* persisted scan records.                                                 *)
(*                                                                         *)
(* Strings are sequences of one-character strings, so that tokenising,     *)
(* regular-expression search and address parsing are computed character by *)
(* character as the Python code (and the ipaddress module it calls) does.  *)
(***************************************************************************)
EXTENDS Integers, Sequences, FiniteSets, TLC

\* ------------------------------------------------------------------------
\* Characters and generic string helpers (Python str methods used by the code)
\* ------------------------------------------------------------------------

Digits == {"0", "1", "2", "3", "4", "5", "6", "7", "8", "9"}

HexDigits == Digits \cup {"a", "b", "c", "d", "e", "f", "A", "B", "C", "D", "E", "F"}

Letters == {"a", "b", "c", "d", "e", "f", "g", "x", "A", "B", "C", "D", "E", "F"}

Whitespace == {" ", "\t"}

Min(a, b) == IF a < b THEN a ELSE b

DigitVal(c) ==
    CASE c = "0" -> 0 [] c = "1" -> 1 [] c = "2" -> 2 [] c = "3" -> 3
      [] c = "4" -> 4 [] c = "5" -> 5 [] c = "6" -> 6 [] c = "7" -> 7
      [] c = "8" -> 8 [] c = "9" -> 9

\* str.isdigit() on an ASCII string: non-empty and every character a digit
IsDigitStr(s) == Len(s) > 0 /\ \A i \in 1..Len(s) : s[i] \in Digits

\* int(s) for a string of decimal digits
RECURSIVE ParseInt(_)
ParseInt(s) ==
    IF Len(s) = 0 THEN 0
    ELSE 10 * ParseInt(SubSeq(s, 1, Len(s) - 1)) + DigitVal(s[Len(s)])

\* c in s
HasChar(s, c) == \E i \in 1..Len(s) : s[i] = c

\* s.count(c)
CountChar(s, c) == Cardinality({i \in 1..Len(s) : s[i] = c})

\* s.split(c): always Count+1 parts, empty parts kept
RECURSIVE Split(_, _)
Split(s, c) ==
    IF ~HasChar(s, c) THEN <<s>>
    ELSE LET i == CHOOSE k \in 1..Len(s) :
                     s[k] = c /\ \A j \in 1..(k - 1) : s[j] # c
         IN  <<SubSeq(s, 1, i - 1)>> \o Split(SubSeq(s, i + 1, Len(s)), c)

\* s.strip()
RECURSIVE LStrip(_)
LStrip(s) ==
    IF Len(s) > 0 /\ s[1] \in Whitespace THEN LStrip(Tail(s)) ELSE s

RECURSIVE RStrip(_)
RStrip(s) ==
    IF Len(s) > 0 /\ s[Len(s)] \in Whitespace
    THEN RStrip(SubSeq(s, 1, Len(s) - 1)) ELSE s

Strip(s) == LStrip(RStrip(s))

\* s.replace(',', ' ')
ReplaceComma(s) == [i \in 1..Len(s) |-> IF s[i] = "," THEN " " ELSE s[i]]

\* s.split() with no argument: split on runs of whitespace, no empty parts
RECURSIVE SplitWs(_)
SplitWs(s) ==
    LET t == LStrip(s) IN
    IF Len(t) = 0 THEN <<>>
    ELSE LET ends == {k \in 1..Len(t) : t[k] \in Whitespace}
             e == IF ends = {} THEN Len(t) + 1
                  ELSE CHOOSE k \in ends : \A j \in ends : k <= j
         IN  <<SubSeq(t, 1, e - 1)>> \o SplitWs(SubSeq(t, e, Len(t)))

\* [t.strip() for t in targets.replace(',', ' ').split() if t.strip()]
TargetList(targets) == SplitWs(ReplaceComma(targets))

\* s.startswith(c) / s.endswith(c) for a one-character c
StartsWith(s, c) == Len(s) > 0 /\ s[1] = c
EndsWith(s, c) == Len(s) > 0 /\ s[Len(s)] = c

\* ------------------------------------------------------------------------
\* Regular expressions used by the validators
\* ------------------------------------------------------------------------

\* A pattern is a sequence of elements: a literal character, or "D+" (\d+).
\* MatchAt(s, i, p): p matches a prefix of s starting at position i.
RECURSIVE MatchAt(_, _, _)
MatchAt(s, i, p) ==
    IF Len(p) = 0 THEN TRUE
    ELSE IF p[1] = "D+"
         THEN \E j \in i..Len(s) :
                 /\ \A k \in i..j : s[k] \in Digits
                 /\ MatchAt(s, j + 1, Tail(p))
         ELSE i <= Len(s) /\ s[i] = p[1] /\ MatchAt(s, i + 1, Tail(p))

\* re.search(p, s)
ReSearch(p, s) == \E i \in 1..(Len(s) + 1) : MatchAt(s, i, p)

\* FORBIDDEN_PATTERNS of ScanService
FORBIDDEN_PATTERNS ==
    << <<"0", ".", "0", ".", "0", ".", "0">>,
       <<"2", "5", "5", ".", "2", "5", "5", ".", "2", "5", "5", ".", "2", "5", "5">>,
       <<"2", "2", "4", ".", "D+", ".", "D+", ".", "D+">>,
       <<"1", "6", "9", ".", "2", "5", "4", ".", "D+", ".", "D+">> >>

\* the character class r'[;&|...$(){}<>]' of NmapRunner.validate_target
\* (the backquote character is written "BACKQUOTE")
DangerousChars == {";", "&", "|", "BACKQUOTE", "$", "(", ")", "{", "}", "<", ">"}

HasDangerousChar(s) == \E i \in 1..Len(s) : s[i] \in DangerousChars

\* re.match(r'^[a-zA-Z0-9.-]+$', s)
HostnameCharsOnly(s) ==
    /\ Len(s) > 0
    /\ \A i \in 1..Len(s) : s[i] \in (Letters \cup Digits \cup {".", "-"})

\* ------------------------------------------------------------------------
\* ipaddress.ip_address / ipaddress.ip_network as called by the validators
\* ------------------------------------------------------------------------

\* IPv4Address._parse_octet succeeds
ValidOctet(o) ==
    /\ IsDigitStr(o)
    /\ Len(o) <= 3
    /\ ~(o # <<"0">> /\ o[1] = "0")
    /\ ParseInt(o) <= 255

\* IPv4Address(s) succeeds
IsIPv4(s) ==
    /\ Len(s) > 0
    /\ ~HasChar(s, "/")
    /\ LET octets == Split(s, ".") IN
         /\ Len(octets) = 4
         /\ \A i \in 1..4 : ValidOctet(octets[i])

\* the four octets of a valid IPv4 string
IPv4Octets(s) == LET octets == Split(s, ".") IN [i \in 1..4 |-> ParseInt(octets[i])]

\* IPv6Address._parse_hextet succeeds
ValidHextet(h) ==
    /\ Len(h) > 0
    /\ Len(h) <= 4
    /\ \A i \in 1..Len(h) : h[i] \in HexDigits

\* IPv6Address._ip_int_from_string succeeds (address without scope id)
IPv6BodyValid(s) ==
    /\ Len(s) > 0
    /\ LET parts0 == Split(s, ":") IN
         /\ Len(parts0) >= 3
         /\ LET last == parts0[Len(parts0)]
                v4 == HasChar(last, ".")
                \* an IPv4 suffix is replaced by two hextets
                parts == IF v4
                         THEN SubSeq(parts0, 1, Len(parts0) - 1) \o << <<"0">>, <<"0">> >>
                         ELSE parts0
                n == Len(parts)
                skips == {i \in 2..(n - 1) : Len(parts[i]) = 0}
            IN
              /\ v4 => IsIPv4(last)
              /\ n <= 9
              /\ Cardinality(skips) <= 1
              /\ IF skips # {}
                 THEN LET k == CHOOSE i \in skips : TRUE
                          hi0 == k - 1
                          lo0 == n - k
                          hi == IF Len(parts[1]) = 0 THEN hi0 - 1 ELSE hi0
                          lo == IF Len(parts[n]) = 0 THEN lo0 - 1 ELSE lo0
                      IN  /\ (Len(parts[1]) = 0 => hi = 0)
                          /\ (Len(parts[n]) = 0 => lo = 0)
                          /\ 8 - (hi + lo) >= 1
                          /\ \A i \in 1..hi : ValidHextet(parts[i])
                          /\ \A i \in (n - lo + 1)..n : ValidHextet(parts[i])
                 ELSE /\ n = 8
                      /\ \A i \in 1..n : ValidHextet(parts[i])

\* IPv6Address(s) succeeds: optional "%scope" suffix, then the address body
IsIPv6(s) ==
    /\ ~HasChar(s, "/")
    /\ IF HasChar(s, "%")
       THEN LET p == CHOOSE k \in 1..Len(s) :
                         s[k] = "%" /\ \A j \in 1..(k - 1) : s[j] # "%"
                scope == SubSeq(s, p + 1, Len(s))
            IN  /\ Len(scope) > 0
                /\ ~HasChar(scope, "%")
                /\ IPv6BodyValid(SubSeq(s, 1, p - 1))
       ELSE IPv6BodyValid(s)

\* ScanService._is_ip_address: ipaddress.ip_address(target) does not raise
_is_ip_address(target) == IsIPv4(target) \/ IsIPv6(target)

\* number of one-bits of a netmask octet (9 = not a run of ones then zeroes)
OctetOnes(v) ==
    CASE v = 0 -> 0 [] v = 128 -> 1 [] v = 192 -> 2 [] v = 224 -> 3
      [] v = 240 -> 4 [] v = 248 -> 5 [] v = 252 -> 6 [] v = 254 -> 7
      [] v = 255 -> 8 [] OTHER -> 9

\* _prefix_from_ip_int succeeds: the 32 bits are ones followed by zeroes
IsNetmask(o) ==
    /\ \A i \in 1..4 : OctetOnes(o[i]) # 9
    /\ \A i \in 1..3 : o[i] # 255 => o[i + 1] = 0

MaskPrefix(o) == OctetOnes(o[1]) + OctetOnes(o[2]) + OctetOnes(o[3]) + OctetOnes(o[4])

\* IPv4Network._make_netmask on a string: a prefix length, else a dotted
\* netmask, else a dotted hostmask; -1 when NetmaskValueError is raised
NetmaskPrefix4(m) ==
    IF IsDigitStr(m)
    THEN IF Len(m) <= 9 /\ ParseInt(m) <= 32 THEN ParseInt(m) ELSE -1
    ELSE IF ~IsIPv4(m) THEN -1
         ELSE LET o == IPv4Octets(m)
                  inv == [i \in 1..4 |-> 255 - o[i]]
              IN  IF IsNetmask(o) THEN MaskPrefix(o)
                  ELSE IF IsNetmask(inv) THEN MaskPrefix(inv)
                  ELSE -1

\* IPv6Network._make_netmask on a string: a prefix length only
NetmaskPrefix6(m) ==
    IF IsDigitStr(m) /\ Len(m) <= 9 /\ ParseInt(m) <= 128 THEN ParseInt(m) ELSE -1

\* ipaddress.ip_network(target, strict=False): IPv4Network, then IPv6Network.
\* ok = no ValueError; hostbits = max_prefixlen - prefixlen, so that
\* num_addresses = 2^hostbits.
ip_network(target) ==
    LET parts == Split(target, "/")
        addr == parts[1]
        mask4 == IF Len(parts) = 2 THEN NetmaskPrefix4(parts[2]) ELSE 32
        mask6 == IF Len(parts) = 2 THEN NetmaskPrefix6(parts[2]) ELSE 128
    IN  IF Len(parts) <= 2 /\ IsIPv4(addr) /\ mask4 >= 0
        THEN [ok |-> TRUE, version |-> 4, hostbits |-> 32 - mask4]
        ELSE IF Len(parts) <= 2 /\ IsIPv6(addr) /\ mask6 >= 0
        THEN [ok |-> TRUE, version |-> 6, hostbits |-> 128 - mask6]
        ELSE [ok |-> FALSE, version |-> 0, hostbits |-> 0]

\* network.num_addresses > 1024, with num_addresses = 2^hostbits
NetworkTooLarge(net) == net.hostbits > 10

\* number of addresses the loop over network.hosts() appends (it stops at 3):
\* a /32 or /128 yields the address itself, a /31 or /127 both addresses,
\* an IPv4 network omits network and broadcast address, an IPv6 network
\* omits the network address
ExampleHosts(net) ==
    IF net.hostbits = 0 THEN 1
    ELSE IF net.hostbits = 1 THEN 2
    ELSE IF net.version = 4 THEN Min(3, 2^Min(net.hostbits, 10) - 2)
    ELSE Min(3, 2^Min(net.hostbits, 10) - 1)

\* ------------------------------------------------------------------------
\* ScanService helper methods
\* ------------------------------------------------------------------------

\* ScanService._is_hostname
_is_hostname(target) ==
    /\ Len(target) > 0
    /\ Len(target) <= 253
    /\ HostnameCharsOnly(target)
    /\ ~StartsWith(target, ".") /\ ~EndsWith(target, ".")
    /\ ~StartsWith(target, "-") /\ ~EndsWith(target, "-")

\* socket.gethostbyname raises UnicodeError (a ValueError) when the idna
\* encoding of the name fails: an empty or over-long label
IdnaEncodes(target) ==
    LET labels == Split(target, ".") IN
      /\ \A i \in 1..(Len(labels) - 1) : Len(labels[i]) > 0 /\ Len(labels[i]) < 64
      /\ Len(labels[Len(labels)]) < 64

\* ScanService._validate_ip_range
_validate_ip_range(target) ==
    IF CountChar(target, "-") # 1 THEN FALSE
    ELSE LET sp == Split(target, "-")
             base_ip == sp[1]
             end_part == sp[2]
             base_parts == Split(base_ip, ".")
             last == base_parts[Len(base_parts)]
         IN  /\ _is_ip_address(base_ip)
             /\ IsDigitStr(end_part)
             /\ Len(end_part) <= 9 /\ ParseInt(end_part) <= 255
             /\ IsDigitStr(last)
             /\ ParseInt(end_part) > ParseInt(last)
             /\ ParseInt(end_part) - ParseInt(last) <= 254

\* ------------------------------------------------------------------------
\* ScanService.validate_targets
\* ------------------------------------------------------------------------

Invalid(msg) == [is_valid |-> FALSE, message |-> msg, resolved |-> 0]

\* the loop over target_list from position i on, with n addresses resolved
\* so far; dns says whether socket.gethostbyname resolves a hostname
RECURSIVE ValidateTokens(_, _, _, _)
ValidateTokens(tl, i, n, dns) ==
    IF i > Len(tl) THEN [is_valid |-> TRUE, message |-> "Targets are valid", resolved |-> n]
    ELSE LET target == tl[i] IN
         IF _is_ip_address(target) THEN ValidateTokens(tl, i + 1, n + 1, dns)
         ELSE IF HasChar(target, "/")
         THEN LET network == ip_network(target) IN
              IF ~network.ok THEN Invalid("Invalid target")
              ELSE IF NetworkTooLarge(network) THEN Invalid("Network too large")
              ELSE ValidateTokens(tl, i + 1, n + ExampleHosts(network), dns)
         ELSE IF _is_hostname(target)
         THEN IF ~IdnaEncodes(target) THEN Invalid("Invalid target")
              ELSE ValidateTokens(tl, i + 1, IF dns THEN n + 1 ELSE n, dns)
         ELSE IF HasChar(target, "-") /\ HasChar(target, ".")
         THEN IF ~_validate_ip_range(target) THEN Invalid("Invalid IP range format")
              ELSE ValidateTokens(tl, i + 1, n, dns)
         ELSE Invalid("Unrecognized target format")

validate_targets(raw, dns) ==
    LET targets == Strip(raw) IN
    IF \E k \in 1..Len(FORBIDDEN_PATTERNS) : ReSearch(FORBIDDEN_PATTERNS[k], targets)
    THEN Invalid("Forbidden target pattern detected")
    ELSE ValidateTokens(TargetList(targets), 1, 0, dns)

\* ------------------------------------------------------------------------
\* NmapRunner.validate_target (the executor's re-validation)
\* ------------------------------------------------------------------------

\* NmapRunner._is_valid_hostname
_is_valid_hostname(hostname) ==
    /\ Len(hostname) <= 253
    /\ HostnameCharsOnly(hostname)
    /\ LET parts == Split(hostname, ".") IN
         \A i \in 1..Len(parts) :
            /\ Len(parts[i]) > 0
            /\ Len(parts[i]) <= 63
            /\ ~StartsWith(parts[i], "-") /\ ~EndsWith(parts[i], "-")

\* the loop over FORBIDDEN_TARGETS for a parsed address: the two literal
\* addresses, and membership in 224.0.0.0/4 or 240.0.0.0/4 (IPv4 only)
InForbiddenTargets(t) ==
    /\ IsIPv4(t)
    /\ LET o == IPv4Octets(t) IN
         \/ o = <<255, 255, 255, 255>>
         \/ o = <<0, 0, 0, 0>>
         \/ (o[1] >= 224 /\ o[1] <= 239)
         \/ (o[1] >= 240 /\ o[1] <= 255)

validate_target(raw) ==
    LET target == Strip(raw) IN
    IF Len(target) = 0 THEN FALSE
    ELSE IF HasDangerousChar(target) THEN FALSE
    ELSE IF _is_ip_address(target) THEN ~InForbiddenTargets(target)
    ELSE _is_valid_hostname(target)

\* ------------------------------------------------------------------------
\* State of the service: the document store, the worker threads, the API call
\* ------------------------------------------------------------------------

VARIABLES
    scans,         \* collection 'scans': scan id -> document (domain = stored ids)
    hosts,         \* collection 'nmap_hosts': scan id -> the host documents linked to it
                   \* (a document is named by its position in the worker's all_hosts)
    worker,        \* scan id -> the background thread started for it by create_scan
    next_id,       \* the next fresh scan id (stands for uuid4())
    is_available,  \* NmapRunner.is_available: the nmap binary was found
    req,           \* the API call being served (one at a time: one event loop)
    vin,           \* pure-function harness: the input drawn
    vout           \* pure-function harness: what was returned for it

vars == <<scans, hosts, worker, next_id, is_available, req, vin, vout>>

\* bounds of the model
MaxScans == 1
MaxHostsPerTarget == 1
MaxHostElems == 2
MaxPortElems == 2

ScanIds == 1..MaxScans

Users == {"alice", "bob"}

\* ScanStatus
PENDING == "pending"
RUNNING == "running"
COMPLETED == "completed"
FAILED == "failed"
CANCELLED == "cancelled"

TerminalStatus == {COMPLETED, FAILED, CANCELLED}

\* ScanResult (nmap_runner.py)
SUCCESS == "success"
TIMEOUT == "timeout"
ERROR == "error"
INVALID_TARGET == "invalid_target"
NMAP_NOT_FOUND == "nmap_not_found"

\* raw target strings offered to create_scan
T_three_hosts ==
    <<"1", "0", ".", "1", ".", "2", ".", "3", ",", "a", ".", "b", ",", "8", ".", "8", ".", "8", ".", "8">>
T_injection == <<"a", ";", "b">>
T_scoped == <<":", ":", "1", "%", ";">>
T_empty == <<" ">>

CreateInputs == {T_three_hosts, T_injection, T_scoped, T_empty}

ProfileInputs == {"quick"}

\* a <host> element of nmap's XML output: the state attribute of its
\* <status> child ("unknown": none) and the number of its <port> elements
HostElems == [status : {"up", "down", "unknown"}, ports : 0..MaxPortElems]

\* an XML document: well-formed or not, and its <host> elements
XmlInputs ==
    {[well_formed |-> FALSE, hosts |-> <<>>]} \cup
    {[well_formed |-> TRUE, hosts |-> h] :
        h \in UNION {[1..n -> HostElems] : n \in 0..MaxHostElems}}

\* the stdout of one nmap run on a single address or name
RunXmlInputs == {x \in XmlInputs : Len(x.hosts) <= MaxHostsPerTarget}

NoDoc == [status |-> "none"]

Idle == [pc |-> "idle", op |-> "none", scan |-> 0, user |-> "none",
         targets |-> <<>>, seen |-> NoDoc, hosts_at_call |-> {}, host_docs |-> {},
         result |-> "none", data |-> NoDoc]

Init ==
    /\ scans = <<>>
    /\ hosts = [s \in ScanIds |-> {}]
    /\ worker = <<>>
    /\ next_id = 1
    /\ is_available \in BOOLEAN
    /\ req = Idle
    /\ vin = <<>>
    /\ vout = [is_valid |-> FALSE, message |-> "none", resolved |-> 0, runner |-> FALSE]

\* the API serves one call at a time; a new call starts when none is in progress
CanCall == req.pc \in {"idle", "returned"}

Returned(op, s, u, res, doc) ==
    [pc |-> "returned", op |-> op, scan |-> s, user |-> u,
     targets |-> <<>>, seen |-> NoDoc, hosts_at_call |-> {}, host_docs |-> {},
     result |-> res, data |-> doc]

\* a call that is between two of its database calls: seen = the document its
\* get_scan returned, hosts_at_call = the host documents of the scan that
\* existed when the call started, host_docs = the result of its host query
InProgress(pc, op, s, u, doc, at_call) ==
    [pc |-> pc, op |-> op, scan |-> s, user |-> u,
     targets |-> <<>>, seen |-> doc, hosts_at_call |-> at_call, host_docs |-> {},
     result |-> "none", data |-> NoDoc]

\* FirebaseManager.update_document: doc_ref.update(data) merges the fields
\* into an existing document and raises when the document does not exist
update_document(s, fields) ==
    [scans EXCEPT ![s] = [f \in DOMAIN scans[s] |->
                            IF f \in DOMAIN fields THEN fields[f] ELSE scans[s][f]]]

\* ------------------------------------------------------------------------
\* ScanService.create_scan
\* ------------------------------------------------------------------------

\* Scan(...).model_dump(exclude_none=True): the PENDING record
NewScan(u, raw, profile) ==
    [user_id |-> u, targets |-> raw, scan_profile |-> profile,
     status |-> PENDING, started_at |-> FALSE, completed_at |-> FALSE,
     error_message |-> "", hosts_found |-> 0, vulnerabilities_found |-> 0,
     risk_score |-> 0]

\* the thread object created for _execute_scan_background
\* (timed_out: some execute_scan call of the loop returned TIMEOUT;
\* per_target: for each target scanned so far, whether its branch ran to the
\* end and the hosts and open ports its parsed output held)
NewWorker(raw, profile) ==
    [pc |-> "running_write", targets |-> raw, target_list |-> <<>>,
     scan_profile |-> profile, i |-> 1, hosts_found |-> 0, vulnerabilities_found |-> 0, to_save |-> 0,
     exec_calls |-> 0, spawned |-> 0, timed_out |-> FALSE, error |-> "",
     per_target |-> <<>>]

MutCreateIgnoresValidation(u, raw, profile, dns, ok) ==
    /\ CanCall
    /\ next_id <= MaxScans
    /\ IF ~ok
       THEN /\ req' = [Returned("create", 0, u, "RuntimeError", NoDoc) EXCEPT !.targets = raw]
            /\ UNCHANGED <<scans, worker, next_id>>
       ELSE /\ scans' = (next_id :> NewScan(u, raw, profile)) @@ scans
            /\ worker' = (next_id :> NewWorker(raw, profile)) @@ worker
            /\ next_id' = next_id + 1
            /\ req' = [Returned("create", next_id, u, "id", NoDoc) EXCEPT !.targets = raw]
    /\ UNCHANGED <<hosts, is_available, vin, vout>>

MutCreateStartsThreadUnpersisted(u, raw, profile, dns, ok) ==
    /\ CanCall
    /\ next_id <= MaxScans
    /\ IF ~validate_targets(raw, dns).is_valid
       THEN /\ req' = [Returned("create", 0, u, "ValueError", NoDoc) EXCEPT !.targets = raw]
            /\ UNCHANGED <<scans, worker, next_id>>
       ELSE IF ~ok
       THEN /\ req' = [Returned("create", 0, u, "RuntimeError", NoDoc) EXCEPT !.targets = raw]
            /\ UNCHANGED <<scans, worker, next_id>>
       ELSE /\ worker' = (next_id :> NewWorker(raw, profile)) @@ worker
            /\ next_id' = next_id + 1
            /\ req' = [Returned("create", next_id, u, "id", NoDoc) EXCEPT !.targets = raw]
            /\ UNCHANGED scans
    /\ UNCHANGED <<hosts, is_available, vin, vout>>

\* ok: the create_document write succeeds
create_scan(u, raw, profile, dns, ok) ==
    /\ CanCall
    /\ next_id <= MaxScans
    /\ IF ~validate_targets(raw, dns).is_valid
       THEN /\ req' = [Returned("create", 0, u, "ValueError", NoDoc) EXCEPT !.targets = raw]
            /\ UNCHANGED <<scans, worker, next_id>>
       ELSE IF ~ok
       THEN \* create_document raised: cleanup delete, RuntimeError
            /\ req' = [Returned("create", 0, u, "RuntimeError", NoDoc) EXCEPT !.targets = raw]
            /\ UNCHANGED <<scans, worker, next_id>>
       ELSE /\ scans' = (next_id :> NewScan(u, raw, profile)) @@ scans
            /\ worker' = (next_id :> NewWorker(raw, profile)) @@ worker
            /\ next_id' = next_id + 1
            /\ req' = [Returned("create", next_id, u, "id", NoDoc) EXCEPT !.targets = raw]
    /\ UNCHANGED <<hosts, is_available, vin, vout>>

\* ------------------------------------------------------------------------
\* NmapRunner.execute_scan
\* ------------------------------------------------------------------------

\* what subprocess.run can do: the process exits 0 or non-zero, with or
\* without text on stdout, or exceeds the profile's timeout, or cannot be
\* started at all (OSError from Popen: no process exists)
RunOutcomes == {"exit0_xml", "exit0_empty", "nonzero_out", "nonzero", "timeout", "oserror"}

\* NmapExecutionResult; xml_output = a non-empty stdout is carried,
\* return_code = -1 for None, spawned = number of processes started
ExecResult(status, xml_output, return_code, spawned) ==
    [status |-> status, xml_output |-> xml_output, return_code |-> return_code,
     spawned |-> spawned]

MutExecuteNoRevalidation(target, run) ==
    IF ~is_available
    THEN ExecResult(NMAP_NOT_FOUND, FALSE, -1, 0)
    ELSE CASE run = "exit0_xml"   -> ExecResult(SUCCESS, TRUE, 0, 1)
           [] run = "exit0_empty" -> ExecResult(SUCCESS, FALSE, 0, 1)
           [] run = "nonzero_out" -> ExecResult(ERROR, TRUE, 1, 1)
           [] run = "nonzero"     -> ExecResult(ERROR, FALSE, 1, 1)
           [] run = "timeout"     -> ExecResult(TIMEOUT, FALSE, -1, 1)
           [] run = "oserror"     -> ExecResult(ERROR, FALSE, -1, 0)

execute_scan(target, run) ==
    IF ~is_available
    THEN ExecResult(NMAP_NOT_FOUND, FALSE, -1, 0)
    ELSE IF ~validate_target(target)
    THEN ExecResult(INVALID_TARGET, FALSE, -1, 0)
    ELSE CASE run = "exit0_xml"   -> ExecResult(SUCCESS, TRUE, 0, 1)
           [] run = "exit0_empty" -> ExecResult(SUCCESS, FALSE, 0, 1)
           [] run = "nonzero_out" -> ExecResult(ERROR, TRUE, 1, 1)
           [] run = "nonzero"     -> ExecResult(ERROR, FALSE, 1, 1)
           [] run = "timeout"     -> ExecResult(TIMEOUT, FALSE, -1, 1)
           [] run = "oserror"     -> ExecResult(ERROR, FALSE, -1, 0)

\* ------------------------------------------------------------------------
\* NmapRunner.get_scan_command and the command a worker thread runs
\* ------------------------------------------------------------------------

\* ScanProfile (models.py) and its counterpart of nmap_runner.py
AllProfiles == {"quick", "full", "service_detection", "vuln_scan", "udp_scan"}

\* self.nmap_path as found by shutil.which("nmap")
nmap_path == <<"n", "m", "a", "p">>

\* SCAN_PROFILES[profile]["args"]; arguments are strings of characters
SCAN_PROFILES(profile) ==
    CASE profile = "quick" ->
           << <<"-", "s", "T">>, <<"-", "P", "n">>, <<"-", "p", "1", "-", "1", "0", "2", "4">>, <<"-", "T", "3">>, <<"-", "-", "m", "i", "n", "-", "r", "a", "t", "e">>, <<"1", "0", "0">> >>
      [] profile = "full" ->
           << <<"-", "s", "T">>, <<"-", "P", "n">>, <<"-", "p", "-">>, <<"-", "T", "4">> >>
      [] profile = "service_detection" ->
           << <<"-", "s", "T">>, <<"-", "s", "V">>, <<"-", "P", "n">>, <<"-", "p", "1", "-", "6", "5", "5", "3", "5">>, <<"-", "T", "4">> >>
      [] profile = "vuln_scan" ->
           << <<"-", "s", "T">>, <<"-", "s", "V">>, <<"-", "s", "C">>, <<"-", "P", "n">>, <<"-", "p", "1", "-", "1", "0", "2", "4">>, <<"-", "T", "3">>, <<"-", "-", "s", "c", "r", "i", "p", "t">>, <<"v", "u", "l", "n">> >>
      [] profile = "udp_scan" ->
           << <<"-", "s", "U">>, <<"-", "P", "n">>, <<"-", "p", "5", "3", ",", "6", "7", ",", "6", "8", ",", "6", "9", ",", "1", "2", "3", ",", "1", "6", "1", ",", "1", "6", "2", ",", "5", "0", "0", ",", "5", "1", "4", ",", "1", "4", "3", "4">>, <<"-", "T", "4">> >>

\* nmap_profile_map.get(scan_profile, NmapScanProfile.QUICK)
nmap_profile_map(scan_profile) ==
    IF scan_profile \in AllProfiles THEN scan_profile ELSE "quick"

get_scan_command(target, profile) ==
    <<nmap_path>> \o SCAN_PROFILES(profile) \o << <<"-", "o", "X">>, <<"-">>, target >>

\* custom_options values offered: None, an nmap flag, a shell fragment
CustomInputs == {<<>>, <<"-", "A">>, <<";", "i", "d">>}

MutBackgroundCommandWithOptions(target, scan_profile, custom_options) ==
    IF is_available /\ validate_target(target)
    THEN get_scan_command(target, nmap_profile_map(scan_profile))
            \o (IF custom_options = <<>> THEN <<>> ELSE <<custom_options>>)
    ELSE <<>>

\* the argument list subprocess.run receives when _execute_scan_background,
\* started with these arguments, reaches target in its loop (<<>>: none,
\* execute_scan returned before building a command)
BackgroundCommand(target, scan_profile, custom_options) ==
    IF is_available /\ validate_target(target)
    THEN get_scan_command(target, nmap_profile_map(scan_profile))
    ELSE <<>>

\* ------------------------------------------------------------------------
\* NmapXMLParser.parse_xml
\* ------------------------------------------------------------------------

\* ScanSummary()
ScanSummary ==
    [total_hosts |-> 0, hosts_up |-> 0, hosts_down |-> 0,
     total_ports_scanned |-> 0, open_ports |-> 0]

\* _parse_host: _parse_port builds PortInfo(port=..., protocol=...) without the
\* required field state, which raises TypeError, so a host element with a
\* <port> child is not parsed; otherwise host_data with an empty ports list
_parse_host(host_elem) ==
    IF host_elem.ports > 0
    THEN [ok |-> FALSE, host_data |-> [status |-> "unknown", ports |-> <<>>]]
    ELSE [ok |-> TRUE, host_data |-> [status |-> host_elem.status, ports |-> <<>>]]

\* number of port dicts of a host in state open
OpenPorts(host_data) == Len(SelectSeq(host_data.ports, LAMBDA port : port.state = "open"))

RECURSIVE _generate_summary(_, _, _)
_generate_summary(host_list, i, summary) ==
    IF i > Len(host_list) THEN summary
    ELSE _generate_summary(host_list, i + 1,
           [total_hosts |-> Len(host_list),
            hosts_up |-> summary.hosts_up + (IF host_list[i].status = "up" THEN 1 ELSE 0),
            hosts_down |-> summary.hosts_down + (IF host_list[i].status = "up" THEN 0 ELSE 1),
            total_ports_scanned |-> summary.total_ports_scanned + Len(host_list[i].ports),
            open_ports |-> summary.open_ports + OpenPorts(host_list[i])])

\* the loop over root.findall('.//host') from element i on
RECURSIVE ParseHosts(_, _, _, _)
ParseHosts(elems, i, host_list, parse_errors) ==
    IF i > Len(elems) THEN [hosts |-> host_list, parse_errors |-> parse_errors]
    ELSE LET r == _parse_host(elems[i]) IN
         IF r.ok THEN ParseHosts(elems, i + 1, Append(host_list, r.host_data), parse_errors)
         ELSE ParseHosts(elems, i + 1, host_list, parse_errors + 1)

MutParseXmlStopsAtBadHost(xml_content) ==
    IF ~xml_content.well_formed
    THEN [raised |-> FALSE, hosts |-> <<>>, summary |-> ScanSummary, parse_errors |-> 1]
    ELSE LET r == ParseHosts(xml_content.hosts, 1, <<>>, 0) IN
         IF r.parse_errors > 0
         THEN [raised |-> FALSE, hosts |-> <<>>, summary |-> ScanSummary, parse_errors |-> 1]
         ELSE [raised |-> FALSE, hosts |-> r.hosts,
               summary |-> _generate_summary(r.hosts, 1, ScanSummary),
               parse_errors |-> r.parse_errors]

\* ParsedNmapResult; parse_errors is the length of the list; raised = an
\* exception left parse_xml (every Exception is caught inside)
parse_xml(xml_content) ==
    IF ~xml_content.well_formed
    THEN [raised |-> FALSE, hosts |-> <<>>, summary |-> ScanSummary, parse_errors |-> 1]
    ELSE LET r == ParseHosts(xml_content.hosts, 1, <<>>, 0) IN
         [raised |-> FALSE, hosts |-> r.hosts,
          summary |-> _generate_summary(r.hosts, 1, ScanSummary),
          parse_errors |-> r.parse_errors]

\* vulnerabilities_found of the worker: open ports over the converted hosts
RECURSIVE CountOpenPorts(_, _)
CountOpenPorts(host_list, i) ==
    IF i > Len(host_list) THEN 0 ELSE OpenPorts(host_list[i]) + CountOpenPorts(host_list, i + 1)

\* ------------------------------------------------------------------------
\* ScanService._execute_scan_background, one step per database or executor call
\* ------------------------------------------------------------------------

\* where the thread goes once the loop over target_list is over
AfterLoop(to_save) == IF to_save > 0 THEN "save" ELSE "complete_write"

\* the first update: status RUNNING, started_at
worker_running_write(s, ok) ==
    /\ s \in DOMAIN worker
    /\ worker[s].pc = "running_write"
    /\ IF ok /\ s \in DOMAIN scans
       THEN /\ scans' = update_document(s, [status |-> RUNNING, started_at |-> TRUE])
            /\ LET target_list == TargetList(worker[s].targets) IN
                 worker' = [worker EXCEPT ![s].target_list = target_list,
                                          ![s].pc = IF Len(target_list) = 0
                                                    THEN AfterLoop(0) ELSE "scan"]
       ELSE /\ worker' = [worker EXCEPT ![s].pc = "failed_write",
                                         ![s].error = "exception"]
            /\ UNCHANGED scans
    /\ UNCHANGED <<hosts, next_id, is_available, req, vin, vout>>

\* what one pass of the loop body did for its target
TargetOutcome(result, converted, parsed_result) ==
    LET succeeded == result.status = SUCCESS /\ result.xml_output /\ converted IN
    [succeeded |-> succeeded,
     hosts |-> IF succeeded THEN Len(parsed_result.hosts) ELSE 0,
     open_ports |-> IF succeeded THEN CountOpenPorts(parsed_result.hosts, 1) ELSE 0]

MutScanTargetRetriesTimeout(s, run, converted, xml) ==
    /\ s \in DOMAIN worker
    /\ worker[s].pc = "scan"
    /\ LET w == worker[s]
           tl == w.target_list
           result == execute_scan(tl[w.i], run)
           counted == result.status = SUCCESS /\ result.xml_output /\ converted
           parsed_result == parse_xml(xml)
           h == IF counted THEN Len(parsed_result.hosts) ELSE 0
           v == IF counted THEN CountOpenPorts(parsed_result.hosts, 1) ELSE 0
           again == result.status = TIMEOUT /\ ~w.timed_out
       IN  worker' = [worker EXCEPT ![s] =
              [w EXCEPT !.i = IF again THEN w.i ELSE w.i + 1,
                        !.hosts_found = w.hosts_found + h,
                        !.vulnerabilities_found = w.vulnerabilities_found + v,
                        !.to_save = w.to_save + h,
                        !.exec_calls = w.exec_calls + 1,
                        !.spawned = w.spawned + result.spawned,
                        !.timed_out = w.timed_out \/ result.status = TIMEOUT,
                        !.per_target = IF again THEN w.per_target
                                       ELSE Append(w.per_target,
                                                TargetOutcome(result, converted, parsed_result)),
                        !.pc = IF again THEN "scan"
                               ELSE IF w.i + 1 > Len(tl) THEN AfterLoop(w.to_save + h)
                               ELSE "scan"]]
    /\ UNCHANGED <<scans, hosts, next_id, is_available, req, vin, vout>>

MutScanTargetKeepsLastOnly(s, run, converted, xml) ==
    /\ s \in DOMAIN worker
    /\ worker[s].pc = "scan"
    /\ LET w == worker[s]
           tl == w.target_list
           result == execute_scan(tl[w.i], run)
           counted == result.status = SUCCESS /\ result.xml_output /\ converted
           parsed_result == parse_xml(xml)
           h == IF counted THEN Len(parsed_result.hosts) ELSE 0
           v == IF counted THEN CountOpenPorts(parsed_result.hosts, 1) ELSE 0
       IN  worker' = [worker EXCEPT ![s] =
              [w EXCEPT !.i = w.i + 1,
                        !.hosts_found = h,
                        !.vulnerabilities_found = v,
                        !.to_save = w.to_save + h,
                        !.exec_calls = w.exec_calls + 1,
                        !.spawned = w.spawned + result.spawned,
                        !.timed_out = w.timed_out \/ result.status = TIMEOUT,
                        !.per_target = Append(w.per_target,
                            TargetOutcome(result, converted, parsed_result)),
                        !.pc = IF w.i + 1 > Len(tl) THEN AfterLoop(w.to_save + h)
                               ELSE "scan"]]
    /\ UNCHANGED <<scans, hosts, next_id, is_available, req, vin, vout>>

\* one iteration of the loop: execute_scan, then parse_xml and the host
\* conversion when it succeeded with output (xml = what nmap printed,
\* converted = FALSE: the host conversion raised)
worker_scan_target(s, run, converted, xml) ==
    /\ s \in DOMAIN worker
    /\ worker[s].pc = "scan"
    /\ LET w == worker[s]
           tl == w.target_list
           result == execute_scan(tl[w.i], run)
           counted == result.status = SUCCESS /\ result.xml_output /\ converted
           parsed_result == parse_xml(xml)
           h == IF counted THEN Len(parsed_result.hosts) ELSE 0
           v == IF counted THEN CountOpenPorts(parsed_result.hosts, 1) ELSE 0
       IN  worker' = [worker EXCEPT ![s] =
              [w EXCEPT !.i = w.i + 1,
                        !.hosts_found = w.hosts_found + h,
                        !.vulnerabilities_found = w.vulnerabilities_found + v,
                        !.to_save = w.to_save + h,
                        !.exec_calls = w.exec_calls + 1,
                        !.spawned = w.spawned + result.spawned,
                        !.timed_out = w.timed_out \/ result.status = TIMEOUT,
                        !.per_target = Append(w.per_target,
                            TargetOutcome(result, converted, parsed_result)),
                        !.pc = IF w.i + 1 > Len(tl) THEN AfterLoop(w.to_save + h)
                               ELSE "scan"]]
    /\ UNCHANGED <<scans, hosts, next_id, is_available, req, vin, vout>>

\* one iteration of the loop saving all_hosts: a failed write is logged only
worker_save_host(s, ok) ==
    /\ s \in DOMAIN worker
    /\ worker[s].pc = "save"
    /\ hosts' = IF ok
                THEN [hosts EXCEPT ![s] = hosts[s] \cup {worker[s].hosts_found - worker[s].to_save + 1}]
                ELSE hosts
    /\ worker' = [worker EXCEPT ![s].to_save = worker[s].to_save - 1,
                                ![s].pc = AfterLoop(worker[s].to_save - 1)]
    /\ UNCHANGED <<scans, next_id, is_available, req, vin, vout>>

\* risk_score = min(100.0, vulnerabilities_found * 10.0 + hosts_found * 5.0)
RiskScore(vulnerabilities_found, hosts_found) ==
    Min(100, vulnerabilities_found * 10 + hosts_found * 5)

MutCompleteWriteFailureIgnored(s, ok) ==
    /\ s \in DOMAIN worker
    /\ worker[s].pc = "complete_write"
    /\ LET w == worker[s] IN
       IF ok /\ s \in DOMAIN scans
       THEN /\ scans' = update_document(s,
                 [status |-> COMPLETED, completed_at |-> TRUE,
                  hosts_found |-> w.hosts_found,
                  vulnerabilities_found |-> w.vulnerabilities_found,
                  risk_score |-> RiskScore(w.vulnerabilities_found, w.hosts_found)])
            /\ worker' = [worker EXCEPT ![s].pc = "done"]
       ELSE /\ worker' = [worker EXCEPT ![s].pc = "done"]
            /\ UNCHANGED scans
    /\ UNCHANGED <<hosts, next_id, is_available, req, vin, vout>>

\* the final update: status COMPLETED with the summary
worker_complete_write(s, ok) ==
    /\ s \in DOMAIN worker
    /\ worker[s].pc = "complete_write"
    /\ LET w == worker[s] IN
       IF ok /\ s \in DOMAIN scans
       THEN /\ scans' = update_document(s,
                 [status |-> COMPLETED, completed_at |-> TRUE,
                  hosts_found |-> w.hosts_found,
                  vulnerabilities_found |-> w.vulnerabilities_found,
                  risk_score |-> RiskScore(w.vulnerabilities_found, w.hosts_found)])
            /\ worker' = [worker EXCEPT ![s].pc = "done"]
       ELSE /\ worker' = [worker EXCEPT ![s].pc = "failed_write",
                                         ![s].error = "exception"]
            /\ UNCHANGED scans
    /\ UNCHANGED <<hosts, next_id, is_available, req, vin, vout>>

\* the except branch: status FAILED, best effort
worker_failed_write(s, ok) ==
    /\ s \in DOMAIN worker
    /\ worker[s].pc = "failed_write"
    /\ scans' = IF ok /\ s \in DOMAIN scans
                THEN update_document(s, [status |-> FAILED, completed_at |-> TRUE,
                                         error_message |-> worker[s].error])
                ELSE scans
    /\ worker' = [worker EXCEPT ![s].pc = "done"]
    /\ UNCHANGED <<hosts, next_id, is_available, req, vin, vout>>

\* ------------------------------------------------------------------------
\* ScanService.get_scan and get_scan_progress
\* ------------------------------------------------------------------------

\* get_scan: the document, or NoDoc for None (absent, not owned, or the read
\* raised: ok = FALSE)
MutGetScanNoOwnerCheck(s, u, ok) ==
    IF ~ok THEN NoDoc
    ELSE IF s \notin DOMAIN scans THEN NoDoc
    ELSE scans[s]

GetScan(s, u, ok) ==
    IF ~ok THEN NoDoc
    ELSE IF s \notin DOMAIN scans THEN NoDoc
    ELSE IF scans[s].user_id # u THEN NoDoc
    ELSE scans[s]

get_scan(s, u, ok) ==
    /\ CanCall
    /\ LET doc == GetScan(s, u, ok) IN
         req' = Returned("get_scan", s, u, IF doc = NoDoc THEN "None" ELSE "doc", doc)
    /\ UNCHANGED <<scans, hosts, worker, next_id, is_available, vin, vout>>

\* the estimated_duration table of get_scan_progress
EstimatedDuration(profile) ==
    CASE profile = "quick" -> 300
      [] profile = "full" -> 1800
      [] profile = "service_detection" -> 900
      [] profile = "vuln_scan" -> 3600
      [] profile = "udp_scan" -> 2400
      [] OTHER -> 600

\* seconds since started_at offered to get_scan_progress
ElapsedInputs == {0, 150, 299, 300, 400}

\* progress_info['progress'] for a scan document, elapsed seconds after started_at
\* (int((elapsed / estimated_duration) * 100) is computed in floating point;
\* for the values of ElapsedInputs it equals the integer quotient below)
Progress(doc, elapsed) ==
    IF doc.status = RUNNING
    THEN IF doc.started_at /\ elapsed < EstimatedDuration(doc.scan_profile)
         THEN Min(90, (elapsed * 100) \div EstimatedDuration(doc.scan_profile))
         ELSE 50
    ELSE IF doc.status = COMPLETED THEN 100
    ELSE 0

get_scan_progress(s, u, ok, elapsed) ==
    /\ CanCall
    /\ LET doc == GetScan(s, u, ok) IN
         req' = IF doc = NoDoc
                THEN Returned("get_scan_progress", s, u, "None", NoDoc)
                ELSE Returned("get_scan_progress", s, u, "info",
                              [status |-> doc.status, progress |-> Progress(doc, elapsed)])
    /\ UNCHANGED <<scans, hosts, worker, next_id, is_available, vin, vout>>

\* ------------------------------------------------------------------------
\* ScanService.cancel_scan: the read (get_scan), then the write
\* ------------------------------------------------------------------------

CancelFields == [status |-> CANCELLED, completed_at |-> TRUE,
                 error_message |-> "Scan cancelled by user"]

MutCancelNoTerminalCheck(s, u, ok) ==
    /\ CanCall
    /\ LET doc == GetScan(s, u, ok) IN
         req' = IF doc = NoDoc
                THEN Returned("cancel", s, u, "False", NoDoc)
                ELSE InProgress("cancel_write", "cancel", s, u, doc, {})
    /\ UNCHANGED <<scans, hosts, worker, next_id, is_available, vin, vout>>

cancel_scan_read(s, u, ok) ==
    /\ CanCall
    /\ LET doc == GetScan(s, u, ok) IN
         req' = IF doc = NoDoc \/ doc.status \in TerminalStatus
                THEN [Returned("cancel", s, u, "False", NoDoc) EXCEPT !.seen = doc]
                ELSE InProgress("cancel_write", "cancel", s, u, doc, {})
    /\ UNCHANGED <<scans, hosts, worker, next_id, is_available, vin, vout>>

MutCancelWriteStatusOnly(ok) ==
    /\ req.pc = "cancel_write"
    /\ IF ok /\ req.scan \in DOMAIN scans
       THEN /\ scans' = update_document(req.scan, [status |-> CANCELLED])
            /\ req' = [Returned("cancel", req.scan, req.user, "True", NoDoc)
                         EXCEPT !.seen = req.seen]
       ELSE /\ req' = [Returned("cancel", req.scan, req.user, "False", NoDoc)
                         EXCEPT !.seen = req.seen]
            /\ UNCHANGED scans
    /\ UNCHANGED <<hosts, worker, next_id, is_available, vin, vout>>

cancel_scan_write(ok) ==
    /\ req.pc = "cancel_write"
    /\ IF ok /\ req.scan \in DOMAIN scans
       THEN /\ scans' = update_document(req.scan, CancelFields)
            /\ req' = [Returned("cancel", req.scan, req.user, "True", NoDoc)
                         EXCEPT !.seen = req.seen]
       ELSE /\ req' = [Returned("cancel", req.scan, req.user, "False", NoDoc)
                         EXCEPT !.seen = req.seen]
            /\ UNCHANGED scans
    /\ UNCHANGED <<hosts, worker, next_id, is_available, vin, vout>>

\* ------------------------------------------------------------------------
\* ScanService.delete_scan, one step per database call
\* ------------------------------------------------------------------------

delete_scan_read(s, u, ok) ==
    /\ CanCall
    /\ LET doc == GetScan(s, u, ok) IN
         req' = IF doc = NoDoc
                THEN Returned("delete", s, u, "False", NoDoc)
                ELSE IF doc.status \in {PENDING, RUNNING}
                THEN InProgress("delete_cancel_read", "delete", s, u, doc, hosts[s])
                ELSE InProgress("delete_doc", "delete", s, u, doc, hosts[s])
    /\ UNCHANGED <<scans, hosts, worker, next_id, is_available, vin, vout>>

\* the nested cancel_scan: its own get_scan ...
delete_cancel_read(ok) ==
    /\ req.pc = "delete_cancel_read"
    /\ LET doc == GetScan(req.scan, req.user, ok) IN
         req' = [req EXCEPT !.pc = IF doc = NoDoc \/ doc.status \in TerminalStatus
                                   THEN "delete_doc" ELSE "delete_cancel_write"]
    /\ UNCHANGED <<scans, hosts, worker, next_id, is_available, vin, vout>>

\* ... and its update, whose outcome delete_scan ignores
delete_cancel_write(ok) ==
    /\ req.pc = "delete_cancel_write"
    /\ scans' = IF ok /\ req.scan \in DOMAIN scans
                THEN update_document(req.scan, CancelFields) ELSE scans
    /\ req' = [req EXCEPT !.pc = "delete_doc"]
    /\ UNCHANGED <<hosts, worker, next_id, is_available, vin, vout>>

\* delete_document('scans', scan_id); when it raises, delete_scan returns False
delete_scan_doc(ok) ==
    /\ req.pc = "delete_doc"
    /\ IF ok
       THEN /\ scans' = [x \in DOMAIN scans \ {req.scan} |-> scans[x]]
            /\ req' = [req EXCEPT !.pc = "delete_query"]
       ELSE /\ req' = [Returned("delete", req.scan, req.user, "False", NoDoc)
                         EXCEPT !.seen = req.seen]
            /\ UNCHANGED scans
    /\ UNCHANGED <<hosts, worker, next_id, is_available, vin, vout>>

\* hosts_ref.where('scan_id', '==', scan_id).get()
delete_query_hosts(ok) ==
    /\ req.pc = "delete_query"
    /\ req' = IF ~ok
              THEN [Returned("delete", req.scan, req.user, "False", NoDoc)
                      EXCEPT !.seen = req.seen]
              ELSE IF hosts[req.scan] = {}
              THEN [Returned("delete", req.scan, req.user, "True", NoDoc)
                      EXCEPT !.seen = req.seen]
              ELSE [req EXCEPT !.pc = "delete_hosts", !.host_docs = hosts[req.scan]]
    /\ UNCHANGED <<scans, hosts, worker, next_id, is_available, vin, vout>>

\* the next host document of the loop over the query result
NextHostDoc == CHOOSE d \in req.host_docs : \A e \in req.host_docs : d <= e

MutDeleteHostDocStopsEarly(ok) ==
    /\ req.pc = "delete_hosts"
    /\ IF ok
       THEN /\ hosts' = [hosts EXCEPT ![req.scan] = hosts[req.scan] \ {NextHostDoc}]
            /\ req' = [Returned("delete", req.scan, req.user, "True", NoDoc)
                         EXCEPT !.seen = req.seen, !.hosts_at_call = req.hosts_at_call]
       ELSE /\ req' = [Returned("delete", req.scan, req.user, "False", NoDoc)
                         EXCEPT !.seen = req.seen, !.hosts_at_call = req.hosts_at_call]
            /\ UNCHANGED hosts
    /\ UNCHANGED <<scans, worker, next_id, is_available, vin, vout>>

\* host_doc.reference.delete() for the next host document of the query
delete_host_doc(ok) ==
    /\ req.pc = "delete_hosts"
    /\ IF ok
       THEN /\ hosts' = [hosts EXCEPT ![req.scan] = hosts[req.scan] \ {NextHostDoc}]
            /\ req' = IF req.host_docs = {NextHostDoc}
                      THEN [Returned("delete", req.scan, req.user, "True", NoDoc)
                              EXCEPT !.seen = req.seen, !.hosts_at_call = req.hosts_at_call]
                      ELSE [req EXCEPT !.host_docs = req.host_docs \ {NextHostDoc}]
       ELSE /\ req' = [Returned("delete", req.scan, req.user, "False", NoDoc)
                         EXCEPT !.seen = req.seen, !.hosts_at_call = req.hosts_at_call]
            /\ UNCHANGED hosts
    /\ UNCHANGED <<scans, worker, next_id, is_available, vin, vout>>

\* ------------------------------------------------------------------------
\* The service: API calls interleaved with the worker threads
\* ------------------------------------------------------------------------

Next ==
    \/ \E u \in Users, raw \in CreateInputs, profile \in ProfileInputs, dns \in BOOLEAN, ok \in BOOLEAN :
          create_scan(u, raw, profile, dns, ok)
    \/ \E s \in ScanIds, ok \in BOOLEAN : worker_running_write(s, ok)
    \/ \E s \in ScanIds, run \in RunOutcomes, converted \in BOOLEAN, xml \in RunXmlInputs :
          \* only a run that exits 0 with output has its output parsed
          /\ run # "exit0_xml" => (converted /\ ~xml.well_formed)
          /\ worker_scan_target(s, run, converted, xml)
    \/ \E s \in ScanIds, ok \in BOOLEAN : worker_save_host(s, ok)
    \/ \E s \in ScanIds, ok \in BOOLEAN : worker_complete_write(s, ok)
    \/ \E s \in ScanIds, ok \in BOOLEAN : worker_failed_write(s, ok)
    \/ \E s \in ScanIds, u \in Users, ok \in BOOLEAN : get_scan(s, u, ok)
    \/ \E s \in ScanIds, u \in Users, ok \in BOOLEAN, elapsed \in ElapsedInputs :
          get_scan_progress(s, u, ok, elapsed)
    \/ \E s \in ScanIds, u \in Users, ok \in BOOLEAN : cancel_scan_read(s, u, ok)
    \/ \E ok \in BOOLEAN : cancel_scan_write(ok)
    \/ \E s \in ScanIds, u \in Users, ok \in BOOLEAN : delete_scan_read(s, u, ok)
    \/ \E ok \in BOOLEAN : delete_cancel_read(ok)
    \/ \E ok \in BOOLEAN : delete_cancel_write(ok)
    \/ \E ok \in BOOLEAN : delete_scan_doc(ok)
    \/ \E ok \in BOOLEAN : delete_query_hosts(ok)
    \/ \E ok \in BOOLEAN : delete_host_doc(ok)

Spec == Init /\ [][Next]_vars

\* ------------------------------------------------------------------------
\* The same system when the worker's writes to the scan record succeed and
\* its thread keeps being scheduled: every executor call returns (it is
\* bounded by the profile's timeout), so each worker step that is enabled is
\* eventually taken
\* ------------------------------------------------------------------------

\* one pass of the loop over the targets, whatever the process does
ScanTargetStep(s) ==
    \E run \in RunOutcomes, converted \in BOOLEAN, xml \in RunXmlInputs :
        /\ run # "exit0_xml" => (converted /\ ~xml.well_formed)
        /\ worker_scan_target(s, run, converted, xml)

\* one step of the thread of scan s
WorkerStep(s) ==
    \/ worker_running_write(s, TRUE)
    \/ ScanTargetStep(s)
    \/ \E ok \in BOOLEAN : worker_save_host(s, ok)
    \/ worker_complete_write(s, TRUE)
    \/ worker_failed_write(s, TRUE)

\* the calls of the API that write to the store (the reads get_scan and
\* get_scan_progress change neither a record nor a worker)
ApiStep ==
    \/ \E u \in Users, raw \in CreateInputs, profile \in ProfileInputs, dns \in BOOLEAN, ok \in BOOLEAN :
          create_scan(u, raw, profile, dns, ok)
    \/ \E s \in ScanIds, u \in Users, ok \in BOOLEAN : cancel_scan_read(s, u, ok)
    \/ \E ok \in BOOLEAN : cancel_scan_write(ok)
    \/ \E s \in ScanIds, u \in Users, ok \in BOOLEAN : delete_scan_read(s, u, ok)
    \/ \E ok \in BOOLEAN : delete_cancel_read(ok)
    \/ \E ok \in BOOLEAN : delete_cancel_write(ok)
    \/ \E ok \in BOOLEAN : delete_scan_doc(ok)
    \/ \E ok \in BOOLEAN : delete_query_hosts(ok)
    \/ \E ok \in BOOLEAN : delete_host_doc(ok)

NextLive == ApiStep \/ \E s \in ScanIds : WorkerStep(s)

\* the thread's fairness.  Its first write and its loop over the targets
\* are enabled exactly when the thread is at "running_write" and at "scan";
\* weak fairness of these two is written out as "infinitely often not
\* enabled, or infinitely often taken"
WorkerFairness(s) ==
    /\ \/ []<>(~(s \in DOMAIN worker /\ worker[s].pc = "running_write"))
       \/ []<><<worker_running_write(s, TRUE)>>_vars
    /\ \/ []<>(~(s \in DOMAIN worker /\ worker[s].pc = "scan"))
       \/ []<><<ScanTargetStep(s)>>_vars
    /\ WF_vars(\E ok \in BOOLEAN : worker_save_host(s, ok))
    /\ WF_vars(worker_complete_write(s, TRUE))
    /\ WF_vars(worker_failed_write(s, TRUE))

SpecLive == Init /\ [][NextLive]_vars /\ \A s \in ScanIds : WorkerFairness(s)

TypeOK ==
    /\ DOMAIN scans \subseteq ScanIds
    /\ DOMAIN worker \subseteq ScanIds
    /\ next_id \in 1..(MaxScans + 1)

\* ------------------------------------------------------------------------
\* The validators as pure functions: a raw string is drawn, then validated
\* ------------------------------------------------------------------------

\* raw target strings offered to validate_targets
TargetInputs == {
    <<>>,
    <<" ">>,
    <<",">>,
    <<" ", ",", " ">>,
    <<"\t">>,
    <<"1", "9", "2", ".", "1", "6", "8", ".", "1", ".", "5", "-", "1", "0">>,
    <<"1", "9", "2", ".", "1", "6", "8", ".", "1", ".", "1", "0", "-", "5">>,
    <<"1", "9", "2", ".", "1", "6", "8", ".", "1", ".", "1", "-", "3", "0", "0">>,
    <<"1", "9", "2", ".", "1", "6", "8", ".", "1", ".", "5", "-", "5">>,
    <<"1", "9", "2", ".", "1", "6", "8", ".", "1", ".", "2", "5", "6", "-", "3", "0", "0">>,
    <<"1", "0", ".", "1", ".", "2", ".", "3">>,
    <<"8", ".", "8", ".", "8", ".", "8">>,
    <<"2", "5", "6", ".", "1", ".", "1", ".", "1">>,
    <<"1", ".", "2", ".", "3">>,
    <<":", ":", "1">>,
    <<":", ":", "1", "%", ";">>,
    <<":", ":", "%", "|">>,
    <<":", ":", "1", "%", "a">>,
    <<":", ":", "1", "%">>,
    <<"1", ":", "2", ":", "3", ":", "4", ":", "5", ":", "6", ":", "7", ":", "8">>,
    <<"1", ":", ":", "2", ":", ":", "3">>,
    <<":", ":", "1", ".", "2", ".", "3", ".", "4">>,
    <<":", ":", "1", ".", "2", ".", "3", ".", "4", "-", "9">>,
    <<":", ":", "1", ".", "2", ".", "3", ".", "4", "-", "4">>,
    <<":", ":", "1", ".", "2", ".", "3", ".", "4", "-", "2", "5", "6">>,
    <<"1", "0", ".", "1", ".", "0", ".", "0", "/", "2", "2">>,
    <<"1", "0", ".", "1", ".", "0", ".", "0", "/", "2", "1">>,
    <<"1", "0", ".", "1", ".", "0", ".", "0", "/", "3", "2">>,
    <<"1", "0", ".", "1", ".", "0", ".", "0", "/", "3", "1">>,
    <<"1", "0", ".", "1", ".", "0", ".", "0", "/", "3", "0">>,
    <<"1", "0", ".", "1", ".", "0", ".", "0", "/", "2", "9">>,
    <<"1", "0", ".", "1", ".", "0", ".", "0", "/", "3", "3">>,
    <<"1", "0", ".", "1", ".", "0", ".", "0", "/">>,
    <<"1", "0", ".", "1", ".", "0", ".", "0", "/", "2", "5", "5", ".", "2", "5", "5", ".", "2", "5", "2", ".", "0">>,
    <<"1", "0", ".", "1", ".", "0", ".", "0", "/", "2", "5", "5", ".", "2", "5", "5", ".", "2", "4", "8", ".", "0">>,
    <<"1", "0", ".", "1", ".", "0", ".", "0", "/", "1", ".", "1", ".", "3", ".", "2", "5", "5">>,
    <<"1", "0", ".", "0", ".", "0", ".", "0", "/", "2", "4">>,
    <<"1", "0", ".", "0", ".", "0", ".", "0", "/", "8">>,
    <<":", ":", "/", "1", "1", "8">>,
    <<":", ":", "/", "1", "1", "7">>,
    <<":", ":", "/", "1", "2", "7">>,
    <<":", ":", "/", "1", "2", "6">>,
    <<":", ":", "%", ";", "/", "1", "2", "7">>,
    <<"1", "9", "2", ".", "1", "6", "8", ".", "0", ".", "0", "/", "1", "6">>,
    <<"1", "9", "2", ".", "1", "6", "8", ".", "1", ".", "0", "/", "2", "4">>,
    <<"1", "7", "2", ".", "1", "6", ".", "0", ".", "0", "/", "2", "2">>,
    <<"a", ".", "b">>,
    <<"a", ".", ".", "b">>,
    <<".", "a">>,
    <<"a", "-">>,
    <<"a", "_", "b">>,
    <<"a", ";", "b">>,
    <<"a", "|", "b">>,
    <<"a", "&", "b">>,
    <<"a", "$", "b">>,
    <<"(", "a", ")">>,
    <<"{", "a", "}">>,
    <<"<", "a", ">">>,
    <<"a", "BACKQUOTE", "b">>,
    <<"x", ".", "a", "a", "a", "a", "a", "a", "a", "a", "a", "a", "a", "a", "a", "a", "a", "a", "a", "a", "a", "a", "a", "a", "a", "a", "a", "a", "a", "a", "a", "a", "a", "a", "a", "a", "a", "a", "a", "a", "a", "a", "a", "a", "a", "a", "a", "a", "a", "a", "a", "a", "a", "a", "a", "a", "a", "a", "a", "a", "a", "a", "a", "a", "a", "a">>,
    <<"1", ".", "2", ".", "3", ".", "4", ";">>,
    <<"1", ".", "2", ".", "3", ".", "4", "-", "5", ";">>,
    <<"1", ".", "2", ".", "3", ".", "4", " ", ";">>,
    <<"2", "2", "4", ".", "1", ".", "2", ".", "3">>,
    <<"1", "6", "9", ".", "2", "5", "4", ".", "1", ".", "1">>,
    <<"2", "5", "5", ".", "2", "5", "5", ".", "2", "5", "5", ".", "2", "5", "5">>,
    <<"0", ".", "0", ".", "0", ".", "0">>,
    <<"1", "0", ".", "0", ".", "0", ".", "0">>,
    <<"2", "4", "0", ".", "1", ".", "1", ".", "1">>,
    <<"2", "3", "9", ".", "1", ".", "1", ".", "1">>,
    <<"1", "0", ".", "1", ".", "2", ".", "3", ",", "a", ".", "b">>,
    <<"1", "0", ".", "1", ".", "2", ".", "3", " ", "8", ".", "8", ".", "8", ".", "8">>,
    <<"1", "0", ".", "1", ".", "2", ".", "3", ",", "a", ";", "b">>,
    <<"a", ".", "b", " ", ":", ":", "1", "%", ";">>,
    <<" ", "1", "0", ".", "1", ".", "2", ".", "3", " ">>,
    <<"1", "0", ".", "1", ".", "0", ".", "0", "/", "2", "1", " ", "a", ".", "b">>,
    <<"1", "0", ".", "1", ".", "2", ".", "3", ",", ",", "a", ".", "b">>,
    <<"1", "0", ".", "1", ".", "0", ".", "0", "/", "3", "0", ",", "1", "0", ".", "1", ".", "0", ".", "0", "/", "3", "1", ",", "a", ".", "b">> }

\* every token of the raw string passes the executor's re-validation
RunnerAcceptsAll(raw) ==
    LET tl == TargetList(Strip(raw)) IN \A i \in 1..Len(tl) : validate_target(tl[i])

NotValidated == [is_valid |-> FALSE, message |-> "none", resolved |-> 0, runner |-> FALSE]

InitV ==
    /\ scans = <<>>
    /\ hosts = [s \in ScanIds |-> {}]
    /\ worker = <<>>
    /\ next_id = 1
    /\ is_available = TRUE
    /\ req = Idle
    /\ vin \in TargetInputs
    /\ vout = NotValidated

\* the validate-targets route: ScanService.validate_targets on the raw string
\* (and, per token, what execute_scan's re-validation will say)
validate(dns) ==
    /\ vout = NotValidated
    /\ LET r == validate_targets(vin, dns) IN
         vout' = [is_valid |-> r.is_valid, message |-> r.message,
                  resolved |-> r.resolved, runner |-> RunnerAcceptsAll(vin)]
    /\ UNCHANGED <<scans, hosts, worker, next_id, is_available, req, vin>>

NextV == \E dns \in BOOLEAN : validate(dns)

SpecV == InitV /\ [][NextV]_vars

Validated == vout # NotValidated

\* ------------------------------------------------------------------------
\* The executor as a pure function: a target is drawn, then executed
\* ------------------------------------------------------------------------

InitE ==
    /\ scans = <<>>
    /\ hosts = [s \in ScanIds |-> {}]
    /\ worker = <<>>
    /\ next_id = 1
    /\ is_available \in BOOLEAN
    /\ req = Idle
    /\ vin \in TargetInputs
    /\ vout = NotValidated

\* nmap_runner.execute_scan(target, profile); run = what subprocess.run does
execute(run) ==
    /\ vout = NotValidated
    /\ vout' = [run |-> run, result |-> execute_scan(vin, run)]
    /\ UNCHANGED <<scans, hosts, worker, next_id, is_available, req, vin>>

NextE == \E run \in RunOutcomes : execute(run)

SpecE == InitE /\ [][NextE]_vars

Executed == vout # NotValidated

\* ------------------------------------------------------------------------
\* The command builder as a pure function
\* ------------------------------------------------------------------------

\* the tokens of the raw target strings
TokenInputs ==
    UNION {{TargetList(Strip(raw))[i] : i \in 1..Len(TargetList(Strip(raw)))} : raw \in TargetInputs}

InitC ==
    /\ scans = <<>>
    /\ hosts = [s \in ScanIds |-> {}]
    /\ worker = <<>>
    /\ next_id = 1
    /\ is_available \in BOOLEAN
    /\ req = Idle
    /\ vin \in [target : TokenInputs, scan_profile : AllProfiles, custom_options : CustomInputs]
    /\ vout = NotValidated

\* one iteration of the worker's loop, up to the call of subprocess.run
build_command ==
    /\ vout = NotValidated
    /\ vout' = [command |-> BackgroundCommand(vin.target, vin.scan_profile, vin.custom_options)]
    /\ UNCHANGED <<scans, hosts, worker, next_id, is_available, req, vin>>

NextC == build_command

SpecC == InitC /\ [][NextC]_vars

Built == vout # NotValidated

\* ------------------------------------------------------------------------
\* ScanService.get_scan_statistics over a stored collection of scans
\* ------------------------------------------------------------------------

\* number of scan documents in the collection the statistics are taken of
MaxStatScans == 3

\* what the worker's writes leave in a document: status with hosts_found,
\* vulnerabilities_found and risk_score (non-zero only once COMPLETED)
StatOutcomes ==
    {<<PENDING, 0, 0, 0>>, <<RUNNING, 0, 0, 0>>, <<FAILED, 0, 0, 0>>,
     <<COMPLETED, 1, 0, RiskScore(0, 1)>>, <<COMPLETED, 3, 0, RiskScore(0, 3)>>}

\* hours between a document's created_at and the call's now
StatAges == {12, 36, 800}

StatDocs ==
    {[user_id |-> u, status |-> o[1], hosts_found |-> o[2],
      vulnerabilities_found |-> o[3], risk_score |-> o[4], age_hours |-> a] :
        u \in Users, o \in StatOutcomes, a \in StatAges}

\* scans_ref.where('user_id', '==', user_id).get()
user_scans(user_id) == SelectSeq(scans, LAMBDA d : d.user_id = user_id)

\* (now - created_at).days of a timedelta
Days(age_hours) == age_hours \div 24

ZeroStats ==
    [total_scans |-> 0, scans_completed |-> 0, scans_failed |-> 0, scans_running |-> 0,
     total_hosts_scanned |-> 0, total_vulnerabilities |-> 0,
     risk_sum |-> 0, risk_count |-> 0,
     scans_last_24h |-> 0, scans_last_7d |-> 0, scans_last_30d |-> 0]

\* the loop over user_scans from document i on; risk_scores is kept as its
\* sum and length, so that average_risk_score = risk_sum / risk_count, and
\* 0.0 when risk_count = 0
RECURSIVE StatsLoop(_, _, _)
StatsLoop(docs, i, stats) ==
    IF i > Len(docs) THEN stats
    ELSE LET d == docs[i]
             inc(b) == IF b THEN 1 ELSE 0
         IN  StatsLoop(docs, i + 1,
               [total_scans |-> stats.total_scans + 1,
                scans_completed |-> stats.scans_completed + inc(d.status = COMPLETED),
                scans_failed |-> stats.scans_failed + inc(d.status = FAILED),
                scans_running |-> stats.scans_running + inc(d.status = RUNNING),
                total_hosts_scanned |-> stats.total_hosts_scanned + d.hosts_found,
                total_vulnerabilities |-> stats.total_vulnerabilities + d.vulnerabilities_found,
                risk_sum |-> stats.risk_sum + (IF d.risk_score > 0 THEN d.risk_score ELSE 0),
                risk_count |-> stats.risk_count + inc(d.risk_score > 0),
                scans_last_24h |-> stats.scans_last_24h + inc(Days(d.age_hours) <= 1),
                scans_last_7d |-> stats.scans_last_7d + inc(Days(d.age_hours) <= 7),
                scans_last_30d |-> stats.scans_last_30d + inc(Days(d.age_hours) <= 30)])

MutStatsAllUsers(user_id, ok) ==
    /\ vout = NotValidated
    /\ vout' = [user |-> user_id, ok |-> ok,
                stats |-> IF ok THEN StatsLoop(scans, 1, ZeroStats) ELSE ZeroStats]
    /\ UNCHANGED <<scans, hosts, worker, next_id, is_available, req, vin>>

\* ok: the query succeeds; when it raises the zeroed response is returned
get_scan_statistics(user_id, ok) ==
    /\ vout = NotValidated
    /\ vout' = [user |-> user_id, ok |-> ok,
                stats |-> IF ok THEN StatsLoop(user_scans(user_id), 1, ZeroStats)
                          ELSE ZeroStats]
    /\ UNCHANGED <<scans, hosts, worker, next_id, is_available, req, vin>>

InitS ==
    /\ scans \in UNION {[1..n -> StatDocs] : n \in 0..MaxStatScans}
    /\ hosts = [s \in ScanIds |-> {}]
    /\ worker = <<>>
    /\ next_id = 1
    /\ is_available = TRUE
    /\ req = Idle
    /\ vin = <<>>
    /\ vout = NotValidated

NextS == \E user_id \in Users, ok \in BOOLEAN : get_scan_statistics(user_id, ok)

SpecS == InitS /\ [][NextS]_vars

Computed == vout # NotValidated

\* ------------------------------------------------------------------------
\* The parser as a pure function: a document is drawn, then parsed
\* ------------------------------------------------------------------------

InitP ==
    /\ scans = <<>>
    /\ hosts = [s \in ScanIds |-> {}]
    /\ worker = <<>>
    /\ next_id = 1
    /\ is_available = TRUE
    /\ req = Idle
    /\ vin \in XmlInputs
    /\ vout = NotValidated

parse ==
    /\ vout = NotValidated
    /\ vout' = parse_xml(vin)
    /\ UNCHANGED <<scans, hosts, worker, next_id, is_available, req, vin>>

NextP == parse

SpecP == InitP /\ [][NextP]_vars

Parsed == vout # NotValidated

\* ------------------------------------------------------------------------
\* CVE extraction (NmapXMLParser.extract_cve_references) as a pure function
\* ------------------------------------------------------------------------

MaxCveHosts == 2

MaxScripts == 2

\* ord(c) for the characters of the script outputs below
Ord(c) ==
    CASE c = " " -> 32 [] c = "-" -> 45 [] c \in Digits -> 48 + DigitVal(c)
      [] c = "C" -> 67 [] c = "E" -> 69 [] c = "V" -> 86
      [] c = "c" -> 99 [] c = "e" -> 101 [] c = "v" -> 118

\* a < b for Python strings: by code point, a proper prefix first
RECURSIVE StrLess(_, _)
StrLess(a, b) ==
    IF Len(b) = 0 THEN FALSE
    ELSE IF Len(a) = 0 THEN TRUE
    ELSE IF a[1] # b[1] THEN Ord(a[1]) < Ord(b[1])
    ELSE StrLess(Tail(a), Tail(b))

\* sorted(list(S)) for a set of strings
RECURSIVE SortedList(_)
SortedList(S) ==
    IF S = {} THEN <<>>
    ELSE LET least == CHOOSE x \in S : \A y \in S \ {x} : StrLess(x, y)
         IN  <<least>> \o SortedList(S \ {least})

\* the character a letter of the pattern matches under re.IGNORECASE
UpperChar(c) == CASE c = "c" -> "C" [] c = "v" -> "V" [] c = "e" -> "E" [] OTHER -> c

\* number of consecutive digits of s from position i on
RECURSIVE DigitRun(_, _)
DigitRun(s, i) ==
    IF i > Len(s) \/ s[i] \notin Digits THEN 0 ELSE 1 + DigitRun(s, i + 1)

\* length of the match of CVE-\d{4}-\d{4,} (re.IGNORECASE) at position i of
\* s, 0 when there is none; the last quantifier is greedy
CveMatchLen(s, i) ==
    IF /\ i + 12 <= Len(s)
       /\ UpperChar(s[i]) = "C" /\ UpperChar(s[i + 1]) = "V"
       /\ UpperChar(s[i + 2]) = "E" /\ s[i + 3] = "-"
       /\ \A k \in 4..7 : s[i + k] \in Digits
       /\ s[i + 8] = "-"
       /\ DigitRun(s, i + 9) >= 4
    THEN 9 + DigitRun(s, i + 9)
    ELSE 0

\* cve_pattern.findall(output): the matched texts, left to right, not
\* overlapping, each as it is written in the output
RECURSIVE CveFindAll(_, _)
CveFindAll(s, i) ==
    IF i > Len(s) THEN <<>>
    ELSE LET n == CveMatchLen(s, i) IN
         IF n > 0 THEN <<SubSeq(s, i, i + n - 1)>> \o CveFindAll(s, i + n)
         ELSE CveFindAll(s, i + 1)

SeqRange(q) == {q[i] : i \in 1..Len(q)}

\* cves after the two nested loops over hosts and their host scripts
CveSet(host_list) ==
    UNION {UNION {SeqRange(CveFindAll(host_list[h].scripts[k].output, 1)) :
                      k \in 1..Len(host_list[h].scripts)} :
               h \in 1..Len(host_list)}

extract_cve_references(parsed_result) == SortedList(CveSet(parsed_result.hosts))

\* script outputs: one identifier, the same one in lower case, two
\* identifiers in one output (one with a longer number), and a near miss
CveOutputs == {
    <<"C", "V", "E", "-", "2", "0", "2", "1", "-", "1", "2", "3", "4">>,
    <<"c", "v", "e", "-", "2", "0", "2", "1", "-", "1", "2", "3", "4">>,
    <<"C", "V", "E", "-", "2", "0", "2", "0", "-", "0", "0", "0", "1", "1", " ", "C", "V", "E", "-", "2", "0", "2", "1", "-", "1", "2", "3", "4">>,
    <<"c", "v", "e", "-", "2", "1", "-", "1">> }

ScriptLists == UNION {[1..n -> [output : CveOutputs]] : n \in 0..MaxScripts}

CveInputs ==
    {[hosts |-> hl] : hl \in UNION {[1..n -> [scripts : ScriptLists]] : n \in 0..MaxCveHosts}}

InitX ==
    /\ scans = <<>>
    /\ hosts = [s \in ScanIds |-> {}]
    /\ worker = <<>>
    /\ next_id = 1
    /\ is_available = TRUE
    /\ req = Idle
    /\ vin \in CveInputs
    /\ vout = NotValidated

extract ==
    /\ vout = NotValidated
    /\ vout' = [cves |-> extract_cve_references(vin)]
    /\ UNCHANGED <<scans, hosts, worker, next_id, is_available, req, vin>>

SpecX == InitX /\ [][extract]_vars

Extracted == vout # NotValidated

\* ------------------------------------------------------------------------
\* Risk levels (RiskCalculator in utils/risk_logic.py) as pure functions.
\* Scores are decimal fixed-point numbers: ScoreUnit units make 1.0, so
\* that a product of a two-decimal weighted sum and two one-decimal
\* multipliers is an integer and the comparisons with 9.0, 7.0, 4.0 and 1.0
\* are exact.
\* ------------------------------------------------------------------------

ScoreUnit == 100000

MaxScore == 11

RiskLevel == [CRITICAL |-> "critical", HIGH |-> "high", MEDIUM |-> "medium",
              LOW |-> "low", INFO |-> "info"]

MutScoreToLevelStrict(score) ==
    IF score > 9 * ScoreUnit THEN RiskLevel.CRITICAL
    ELSE IF score > 7 * ScoreUnit THEN RiskLevel.HIGH
    ELSE IF score > 4 * ScoreUnit THEN RiskLevel.MEDIUM
    ELSE IF score > 1 * ScoreUnit THEN RiskLevel.LOW
    ELSE RiskLevel.INFO

score_to_risk_level(score) ==
    IF score >= 9 * ScoreUnit THEN RiskLevel.CRITICAL
    ELSE IF score >= 7 * ScoreUnit THEN RiskLevel.HIGH
    ELSE IF score >= 4 * ScoreUnit THEN RiskLevel.MEDIUM
    ELSE IF score >= 1 * ScoreUnit THEN RiskLevel.LOW
    ELSE RiskLevel.INFO

\* scores with three decimals from -1.000 to MaxScore.000
ScoreInputs == {k * (ScoreUnit \div 1000) : k \in (-1000)..(MaxScore * 1000)}

InitL ==
    /\ scans = <<>>
    /\ hosts = [s \in ScanIds |-> {}]
    /\ worker = <<>>
    /\ next_id = 1
    /\ is_available = TRUE
    /\ req = Idle
    /\ vin \in ScoreInputs
    /\ vout = NotValidated

level ==
    /\ vout = NotValidated
    /\ vout' = [level |-> score_to_risk_level(vin)]
    /\ UNCHANGED <<scans, hosts, worker, next_id, is_available, req, vin>>

SpecL == InitL /\ [][level]_vars

Levelled == vout # NotValidated

\* multipliers in tenths
AssetTypes == {"server", "workstation", "network_device", "database",
               "web_application", "mobile_device", "iot_device", "cloud_service"}

ASSET_TYPE_MULTIPLIERS(asset_type) ==
    CASE asset_type = "database" -> 15
      [] asset_type = "server" -> 13
      [] asset_type = "web_application" -> 14
      [] asset_type = "network_device" -> 12
      [] asset_type = "workstation" -> 10
      [] asset_type = "mobile_device" -> 9
      [] asset_type = "iot_device" -> 8
      [] asset_type = "cloud_service" -> 11
      [] OTHER -> 10

\* "none" is None; "legal" is a unit the table does not list
BusinessUnits == {"none", "finance", "hr", "it", "operations", "marketing",
                  "sales", "support", "legal", "Finance"}

Lower(business_unit) == IF business_unit = "Finance" THEN "finance" ELSE business_unit

BUSINESS_UNIT_MULTIPLIERS(business_unit) ==
    CASE business_unit = "finance" -> 15
      [] business_unit = "hr" -> 13
      [] business_unit = "it" -> 14
      [] business_unit = "operations" -> 12
      [] business_unit = "marketing" -> 10
      [] business_unit = "sales" -> 11
      [] business_unit = "support" -> 9
      [] OTHER -> 10

\* round(x, 2); a value exactly half way between two two-decimal numbers has
\* no exact binary representation in general, so the float that holds it
\* lies on either side and the result is either neighbour (tie_up)
Round2(x, tie_up) ==
    LET step == ScoreUnit \div 100
        q == x \div step
        r == x % step
    IN  IF 2 * r < step THEN q * step
        ELSE IF 2 * r > step THEN (q + 1) * step
        ELSE IF tie_up THEN (q + 1) * step ELSE q * step

\* the three sub-scores are given in hundredths
calculate_overall_risk(vulnerability_score, threat_score, business_impact_score, asset_type, business_unit, tie_up) ==
    LET base_risk == 4 * vulnerability_score + 3 * threat_score
                         + 3 * business_impact_score
        asset_multiplier == ASSET_TYPE_MULTIPLIERS(asset_type)
        business_multiplier ==
            IF business_unit # "none"
            THEN BUSINESS_UNIT_MULTIPLIERS(Lower(business_unit)) ELSE 10
        overall_risk == Min(base_risk * asset_multiplier * business_multiplier,
                            10 * ScoreUnit)
        risk_level == score_to_risk_level(overall_risk)
    IN  [score |-> Round2(overall_risk, tie_up), level |-> risk_level]

\* sub-scores 0, 5.0, 6.92, 9.0 and 10.0
SubScores == {0, 500, 692, 900, 1000}

RiskInputs ==
    [vulnerability_score : SubScores, threat_score : SubScores,
     business_impact_score : SubScores, asset_type : AssetTypes,
     business_unit : BusinessUnits]

InitO ==
    /\ scans = <<>>
    /\ hosts = [s \in ScanIds |-> {}]
    /\ worker = <<>>
    /\ next_id = 1
    /\ is_available = TRUE
    /\ req = Idle
    /\ vin \in RiskInputs
    /\ vout = NotValidated

assess(tie_up) ==
    /\ vout = NotValidated
    /\ vout' = calculate_overall_risk(vin.vulnerability_score, vin.threat_score,
                                      vin.business_impact_score, vin.asset_type,
                                      vin.business_unit, tie_up)
    /\ UNCHANGED <<scans, hosts, worker, next_id, is_available, req, vin>>

NextO == \E tie_up \in BOOLEAN : assess(tie_up)

SpecO == InitO /\ [][NextO]_vars

Assessed == vout # NotValidated

\* ------------------------------------------------------------------------
\* Properties
\* ------------------------------------------------------------------------

\* a step that starts an API call op (its first database read included)
Calls(op) == CanCall /\ req' # req /\ req'.op = op

\* the call that starts in this step targets a stored scan of its caller
CallByOwner == req'.scan \in DOMAIN scans /\ scans[req'.scan].user_id = req'.user

\* C1: once the persisted status of a scan is COMPLETED, FAILED or CANCELLED
\* it never changes again, whatever the interleaving of the background worker
\* with cancel_scan.
C1_TerminalStatusIsFinal ==
    [][\A s \in DOMAIN scans :
          (scans[s].status \in TerminalStatus /\ s \in DOMAIN scans')
             => scans'[s].status = scans[s].status]_vars

\* C2: cancel_scan by the owner on a scan whose persisted status is COMPLETED,
\* FAILED or CANCELLED returns false and leaves the stored scan records (and
\* the host records) unchanged.
C2_CancelTerminalRejected ==
    [][(Calls("cancel") /\ CallByOwner /\ scans[req'.scan].status \in TerminalStatus)
          => (/\ req'.pc = "returned"
              /\ req'.result = "False"
              /\ scans' = scans
              /\ hosts' = hosts)]_vars

C2_Witness ==
    /\ req.pc = "returned" /\ req.op = "cancel" /\ req.result = "False"
    /\ req.seen # NoDoc
    /\ req.seen.user_id = req.user
    /\ req.seen.status \in TerminalStatus

C4_CompletedAtIffTerminal ==
    \A s \in DOMAIN scans :
        scans[s].completed_at <=> scans[s].status \in TerminalStatus

\* C5: the risk_score persisted on a scan record is always within [0,10].
C5_RiskScoreInRange ==
    \A s \in DOMAIN scans : scans[s].risk_score >= 0 /\ scans[s].risk_score <= 10

\* what each operation returns for a scan id that is not in the store
NotFound(op) == IF op \in {"get_scan", "get_scan_progress"} THEN "None" ELSE "False"

\* C6: get_scan, get_scan_progress, cancel_scan and delete_scan called for a
\* scan by a principal that is not its stored owner return exactly what they
\* return for a scan id that is not stored (None / None / False / False), and
\* leave the scan and host records unchanged, whatever the scan's status.
C6_OwnershipIsolation ==
    [][\A op \in {"get_scan", "get_scan_progress", "cancel", "delete"} :
          (Calls(op) /\ (req'.scan \notin DOMAIN scans
                          \/ scans[req'.scan].user_id # req'.user))
             => (/\ req' = Returned(op, req'.scan, req'.user, NotFound(op), NoDoc)
                 /\ scans' = scans
                 /\ hosts' = hosts)]_vars

C6_Witness ==
    /\ req.pc = "returned" /\ req.op = "delete" /\ req.result = "False"
    /\ req.scan \in DOMAIN scans
    /\ scans[req.scan].user_id # req.user
    /\ scans[req.scan].status = RUNNING

\* C7: when target validation fails, create_scan raises a validation error,
\* persists no scan record and starts no background execution.
C7_InvalidCreatePersistsNothing ==
    [][(Calls("create") /\ ~validate_targets(req'.targets, TRUE).is_valid)
          => (/\ req'.pc = "returned"
              /\ req'.result = "ValueError"
              /\ scans' = scans
              /\ worker' = worker
              /\ hosts' = hosts
              /\ next_id' = next_id)]_vars

C7_Witness ==
    /\ req.pc = "returned" /\ req.op = "create" /\ req.result = "ValueError"
    /\ req.targets = T_injection
    /\ scans = <<>> /\ worker = <<>>

\* C8: a create_scan whose target string contains any of ; & | ` $ ( ) { } < >
\* is refused by validation: it stores no scan, and no worker ever invokes the
\* scan executor or spawns a process for such a string.
C8_InjectionNeverExecutes ==
    /\ (req.op = "create" /\ HasDangerousChar(req.targets)) => req.result # "id"
    /\ \A s \in DOMAIN worker :
          HasDangerousChar(worker[s].targets)
             => (worker[s].exec_calls = 0 /\ worker[s].spawned = 0)

\* C9: validate_targets on an input that is empty after trimming (empty, or
\* only whitespace and commas) returns invalid.
C9_EmptyIsInvalid ==
    (Validated /\ Len(TargetList(Strip(vin))) = 0) => ~vout.is_valid

\* a token of the form a.b.c.d-e: four dot-separated decimal parts, one
\* hyphen, a decimal end
IsHyphenRange(t) ==
    /\ CountChar(t, "-") = 1
    /\ LET sp == Split(t, "-")
           o == Split(sp[1], ".")
       IN  /\ Len(o) = 4
           /\ \A i \in 1..4 : IsDigitStr(o[i])
           /\ IsDigitStr(sp[2])

\* C10: a single token of the form a.b.c.d-e is accepted only if the base IP
\* parses, e is at most 255 and e is strictly greater than d.
C10_HyphenRangeChecked ==
    (Validated /\ IsHyphenRange(Strip(vin)) /\ vout.is_valid)
       => LET sp == Split(Strip(vin), "-")
              o == Split(sp[1], ".")
          IN  /\ IsIPv4(sp[1])
              /\ ParseInt(sp[2]) <= 255
              /\ ParseInt(sp[2]) > ParseInt(o[4])

\* the raw string is one CIDR token: it has a slash and parses as a network
IsCidr(t) == Len(TargetList(t)) = 1 /\ TargetList(t)[1] = t /\ HasChar(t, "/") /\ ip_network(t).ok

\* C11: a CIDR target with more than 1024 addresses is invalid with the
\* size-limit message; one with at most 1024 addresses is valid with at most
\* 3 example addresses, whatever substrings its text contains.
C11_CidrSizeLimit ==
    (Validated /\ IsCidr(Strip(vin)))
       => IF ip_network(Strip(vin)).hostbits > 10
          THEN ~vout.is_valid /\ vout.message = "Network too large"
          ELSE vout.is_valid /\ vout.resolved <= 3

\* what a started process makes execute_scan return
ProcessOutcome(run, r) ==
    /\ run \in {"exit0_xml", "exit0_empty"}
          => r.status = SUCCESS /\ r.return_code = 0 /\ r.xml_output = (run = "exit0_xml")
    /\ run \in {"nonzero_out", "nonzero"}
          => r.status = ERROR /\ r.return_code > 0 /\ r.xml_output = (run = "nonzero_out")
    /\ run = "timeout" => r.status = TIMEOUT

\* C12 as stated: NMAP_NOT_FOUND without the binary and INVALID_TARGET for a
\* target failing re-validation, both with no process spawned; otherwise
\* exactly one process is spawned, and exit 0 gives SUCCESS with the output,
\* a non-zero exit ERROR with the exit code and the partial stdout, expiry of
\* the timeout TIMEOUT.
C12_ExecuteSpawnsExactlyOne ==
    Executed =>
       LET r == vout.result IN
       IF ~is_available THEN r.status = NMAP_NOT_FOUND /\ r.spawned = 0
       ELSE IF ~validate_target(vin) THEN r.status = INVALID_TARGET /\ r.spawned = 0
       ELSE r.spawned = 1 /\ ProcessOutcome(vout.run, r)

\* C12 amended: as above, except that once both guards pass the process may
\* fail to start, which gives ERROR with no exit code, no output and no
\* process; when it starts exactly one process is spawned.
C12_ExecuteOutcomes ==
    Executed =>
       LET r == vout.result IN
       IF ~is_available THEN r.status = NMAP_NOT_FOUND /\ r.spawned = 0
       ELSE IF ~validate_target(vin) THEN r.status = INVALID_TARGET /\ r.spawned = 0
       ELSE IF vout.run = "oserror"
       THEN r.status = ERROR /\ r.spawned = 0 /\ r.return_code = -1 /\ ~r.xml_output
       ELSE r.spawned = 1 /\ ProcessOutcome(vout.run, r)

\* a target failing re-validation was refused with the binary present
C12_Witness ==
    /\ Executed /\ is_available /\ ~validate_target(vin)
    /\ vout.result.status = INVALID_TARGET /\ vout.run = "exit0_xml"

\* C13: the command built for a scan is the binary, the profile's fixed
\* argument template, the output flags and the validated target last; it is
\* the same whatever custom_options the scan was created with.
C13_CommandFromProfileAndTarget ==
    (Built /\ vout.command # <<>>) =>
       LET c == vout.command
           n == Len(c)
           t == SCAN_PROFILES(vin.scan_profile)
       IN  /\ n = Len(t) + 4
           /\ c[1] = nmap_path
           /\ SubSeq(c, 2, n - 3) = t
           /\ c[n - 2] = <<"-", "o", "X">> /\ c[n - 1] = <<"-">>
           /\ c[n] = vin.target /\ validate_target(vin.target)
           /\ \A o \in CustomInputs :
                 BackgroundCommand(vin.target, vin.scan_profile, o) = c

\* a command was built for a scan created with non-empty custom options
C13_Witness ==
    /\ Built /\ vout.command # <<>>
    /\ vin.custom_options = <<";", "i", "d">> /\ vin.scan_profile = "vuln_scan"

\* C14: a scan one of whose targets made the executor return TIMEOUT is
\* marked FAILED with a timeout message by its worker; it does not end
\* COMPLETED.
C14_TimeoutMarksFailed ==
    \A s \in DOMAIN worker \cap DOMAIN scans :
       (worker[s].timed_out /\ worker[s].pc = "done")
          => scans[s].status # COMPLETED

\* C15: get_scan_progress for the owner reports 0 for PENDING, 100 for
\* COMPLETED, 0 for FAILED and CANCELLED, and for RUNNING
\* min(90, floor(100 * elapsed / expected_duration(profile))) for every
\* elapsed time, also at or beyond the expected duration.
C15_ProgressByStatus ==
    [][\A s \in ScanIds, u \in Users, elapsed \in ElapsedInputs :
          (get_scan_progress(s, u, TRUE, elapsed) /\ s \in DOMAIN scans /\ scans[s].user_id = u)
             => req'.data.progress =
                  CASE scans[s].status = PENDING -> 0
                    [] scans[s].status = COMPLETED -> 100
                    [] scans[s].status \in {FAILED, CANCELLED} -> 0
                    [] scans[s].status = RUNNING ->
                         Min(90, (100 * elapsed) \div EstimatedDuration(scans[s].scan_profile))]_vars

\* C16: once delete_scan has removed the scan record it returns true, even
\* if the query for the linked host records or the removal of one of them
\* fails; it never returns false after the scan record was deleted.
C16_DeleteReportsPrimaryRemoval ==
    [][(req.pc \in {"delete_query", "delete_hosts"} /\ req'.pc = "returned")
          => req'.result = "True"]_vars

\* C17: delete_scan by the owner on a PENDING or RUNNING scan calls
\* cancel_scan before it deletes anything, and when it returns true the scan
\* record and every host record of the scan that existed when the call
\* started are gone from the store.
C17_DeleteActiveScan ==
    [][/\ (Calls("delete") /\ CallByOwner /\ scans[req'.scan].status \in {PENDING, RUNNING})
            => \/ req'.pc = "delete_cancel_read"
               \/ req'.pc = "returned" /\ req'.result = "False"
       /\ (/\ req.op = "delete" /\ ~CanCall /\ req.seen.status \in {PENDING, RUNNING}
           /\ req'.pc = "returned" /\ req'.result = "True")
            => /\ req.scan \notin DOMAIN scans'
               /\ req.hosts_at_call \cap hosts'[req.scan] = {}]_vars

\* delete_scan returned true for a RUNNING scan that had host records
C17_Witness ==
    /\ req.pc = "returned" /\ req.op = "delete" /\ req.result = "True"
    /\ req.seen.status = RUNNING /\ req.hosts_at_call # {}

\* the stored scans of a user, and their count and risk total
Mine(u) == {i \in DOMAIN scans : scans[i].user_id = u}

RECURSIVE RiskTotal(_)
RiskTotal(S) ==
    IF S = {} THEN 0
    ELSE LET i == CHOOSE j \in S : TRUE IN scans[i].risk_score + RiskTotal(S \ {i})

\* the statistics aggregate exactly the scans of user u
AggregatesOf(u, st) ==
    /\ st.scans_completed = Cardinality({i \in Mine(u) : scans[i].status = COMPLETED})
    /\ st.scans_failed = Cardinality({i \in Mine(u) : scans[i].status = FAILED})
    /\ st.scans_running = Cardinality({i \in Mine(u) : scans[i].status = RUNNING})
    /\ st.risk_count = Cardinality({i \in Mine(u) : scans[i].risk_score > 0})
    /\ st.risk_sum = RiskTotal({i \in Mine(u) : scans[i].risk_score > 0})

\* C18 as stated: get_scan_statistics aggregates exactly the requester's
\* scans: the counts by status are the numbers of their scans with that
\* status and the average is taken over exactly their scans with
\* risk_score > 0 (0 when there are none).
C18_StatsAlwaysAggregate ==
    Computed => AggregatesOf(vout.user, vout.stats)

\* C18 amended: the same when the query for the requester's scans succeeds;
\* when it raises, the zeroed statistics are returned.
C18_StatsAggregateOwnScans ==
    Computed => IF vout.ok THEN AggregatesOf(vout.user, vout.stats)
                ELSE vout.stats = ZeroStats

\* statistics averaged over two scored scans of the requester while another
\* user's scored scan is stored
C18_Witness ==
    /\ Computed /\ vout.ok
    /\ vout.stats.risk_count = 2 /\ vout.stats.risk_sum = 20
    /\ \E i \in DOMAIN scans : scans[i].user_id # vout.user /\ scans[i].risk_score > 0

\* C19: a scan is counted in scans_last_24h only if it was created at most
\* 24 hours before now, in scans_last_7d only if at most 7 days, in
\* scans_last_30d only if at most 30 days.
C19_AgeBuckets ==
    (Computed /\ vout.ok) =>
       /\ vout.stats.scans_last_24h <= Cardinality({i \in Mine(vout.user) : scans[i].age_hours <= 24})
       /\ vout.stats.scans_last_7d <= Cardinality({i \in Mine(vout.user) : scans[i].age_hours <= 7 * 24})
       /\ vout.stats.scans_last_30d <= Cardinality({i \in Mine(vout.user) : scans[i].age_hours <= 30 * 24})

\* the host elements of the drawn document that have no <port> child
GoodElems == {i \in 1..Len(vin.hosts) : vin.hosts[i].ports = 0}

\* C20: parse_xml never raises; for a document that is not well-formed it
\* returns no hosts, a zeroed summary and a non-empty parse-errors list; when
\* parsing a host fails an error is recorded and every other host of the
\* document is still returned and summarised.
C20_ParseNeverRaises ==
    Parsed =>
       /\ ~vout.raised
       /\ ~vin.well_formed =>
             vout.hosts = <<>> /\ vout.summary = ScanSummary /\ vout.parse_errors > 0
       /\ vin.well_formed =>
             /\ vout.parse_errors = Len(vin.hosts) - Cardinality(GoodElems)
             /\ Len(vout.hosts) = Cardinality(GoodElems)
             /\ vout.summary.total_hosts = Cardinality(GoodElems)
             /\ vout.summary.hosts_up =
                   Cardinality({i \in GoodElems : vin.hosts[i].status = "up"})
             /\ vout.summary.hosts_up + vout.summary.hosts_down = Cardinality(GoodElems)

\* a document one of whose two hosts failed to parse, the other returned
C20_Witness ==
    /\ Parsed /\ vin.well_formed /\ Len(vin.hosts) = 2
    /\ vout.parse_errors = 1 /\ Len(vout.hosts) = 1 /\ vout.summary.hosts_up = 1

\* C21: extract_cve_references returns a sorted list without duplicates
\* that does not depend on the order of the hosts or of their script
\* findings, and mentions of one CVE identifier in several outputs, in any
\* letter case, collapse to a single entry.
Reversed(q) == [i \in 1..Len(q) |-> q[Len(q) + 1 - i]]

HostsReordered(parsed_result) ==
    [hosts |-> Reversed([h \in 1..Len(parsed_result.hosts) |->
                  [scripts |-> Reversed(parsed_result.hosts[h].scripts)]])]

UpperStr(s) == [i \in 1..Len(s) |-> UpperChar(s[i])]

C21_CveSortedUniqueAnyCase ==
    Extracted =>
        /\ \A i \in 1..(Len(vout.cves) - 1) : StrLess(vout.cves[i], vout.cves[i + 1])
        /\ vout.cves = extract_cve_references(HostsReordered(vin))
        /\ \A i, j \in 1..Len(vout.cves) :
               UpperStr(vout.cves[i]) = UpperStr(vout.cves[j]) => i = j

\* the score k / 1000
Milli(k) == k * (ScoreUnit \div 1000)

\* C22: score_to_risk_level maps a score to CRITICAL iff score >= 9.0, HIGH
\* iff 7.0 <= score < 9.0, MEDIUM iff 4.0 <= score < 7.0, LOW iff
\* 1.0 <= score < 4.0 and INFO otherwise, the boundaries being exact
\* (9.0 CRITICAL, 8.999 HIGH, 7.0 HIGH, 6.999 MEDIUM, 4.0 MEDIUM, 1.0 LOW,
\* 0.999 INFO).
C22_LevelThresholds ==
    Levelled =>
        /\ vout.level = RiskLevel.CRITICAL <=> vin >= Milli(9000)
        /\ vout.level = RiskLevel.HIGH <=> (Milli(7000) <= vin /\ vin < Milli(9000))
        /\ vout.level = RiskLevel.MEDIUM <=> (Milli(4000) <= vin /\ vin < Milli(7000))
        /\ vout.level = RiskLevel.LOW <=> (Milli(1000) <= vin /\ vin < Milli(4000))
        /\ vout.level = RiskLevel.INFO <=> vin < Milli(1000)
        /\ vin = Milli(9000) => vout.level = RiskLevel.CRITICAL
        /\ vin = Milli(8999) => vout.level = RiskLevel.HIGH
        /\ vin = Milli(7000) => vout.level = RiskLevel.HIGH
        /\ vin = Milli(6999) => vout.level = RiskLevel.MEDIUM
        /\ vin = Milli(4000) => vout.level = RiskLevel.MEDIUM
        /\ vin = Milli(1000) => vout.level = RiskLevel.LOW
        /\ vin = Milli(999) => vout.level = RiskLevel.INFO

C22_Witness == Levelled /\ vin = Milli(7000) /\ vout.level = RiskLevel.HIGH

\* C29: the pair (score, level) returned by calculate_overall_risk is
\* self-consistent: the level equals score_to_risk_level applied to the
\* returned (two-decimal) score, for all sub-scores in [0,10] and all
\* multipliers, e.g. never score 9.0 together with level HIGH, and the
\* returned score lies in [0,10].
C29_ScoreLevelConsistent ==
    Assessed =>
        /\ vout.level = score_to_risk_level(vout.score)
        /\ ~(vout.score = 9 * ScoreUnit /\ vout.level = RiskLevel.HIGH)
        /\ 0 <= vout.score /\ vout.score <= 10 * ScoreUnit

\* C23: create_scan persists the PENDING record before it schedules the
\* execution and returns the scan id without waiting for it: the step that
\* starts the worker of a scan is the step in which the record appears with
\* status PENDING and the call returns the id, the worker not having run
\* any external process; and a write of RUNNING only ever lands on a record
\* that create_scan had stored before.
C23_Scheduled(s) == s \in DOMAIN worker' /\ s \notin DOMAIN worker

C23_BecomesRunning(s) ==
    /\ s \in DOMAIN scans' /\ scans'[s].status = RUNNING
    /\ ~(s \in DOMAIN scans /\ scans[s].status = RUNNING)

C23_PendingBeforeScheduling ==
    [][\A s \in ScanIds :
          /\ C23_Scheduled(s) =>
                /\ s \notin DOMAIN scans
                /\ s \in DOMAIN scans' /\ scans'[s].status = PENDING
                /\ req'.pc = "returned" /\ req'.op = "create"
                /\ req'.result = "id" /\ req'.scan = s
                /\ worker'[s].pc = "running_write" /\ worker'[s].exec_calls = 0
          /\ (s \in DOMAIN scans' /\ s \notin DOMAIN scans) =>
                scans'[s].status = PENDING /\ C23_Scheduled(s)
          /\ C23_BecomesRunning(s) =>
                s \in DOMAIN scans /\ s \in DOMAIN worker]_vars

\* the create call has returned the id while the scan's worker is still in
\* its loop, one executor call behind it and another one ahead
C23_Witness ==
    /\ req.pc = "returned" /\ req.op = "create" /\ req.result = "id"
    /\ req.scan \in DOMAIN worker /\ worker[req.scan].pc = "scan"
    /\ worker[req.scan].exec_calls > 0
    /\ scans[req.scan].status = RUNNING

\* C24: for a scan with several target tokens, the summary written with
\* COMPLETED comes from counts accumulated over all targets: hosts_found
\* and the open-port (vulnerability) count are the sums over the targets
\* whose execution and parsing succeeded, a failed target adds nothing and
\* discards nothing, and the risk score is derived from those totals, not
\* from the last target alone.
RECURSIVE TotalHosts(_)
TotalHosts(outcomes) ==
    IF Len(outcomes) = 0 THEN 0
    ELSE (IF Head(outcomes).succeeded THEN Head(outcomes).hosts ELSE 0)
             + TotalHosts(Tail(outcomes))

RECURSIVE TotalOpenPorts(_)
TotalOpenPorts(outcomes) ==
    IF Len(outcomes) = 0 THEN 0
    ELSE (IF Head(outcomes).succeeded THEN Head(outcomes).open_ports ELSE 0)
             + TotalOpenPorts(Tail(outcomes))

C24_CompletedWrite(s) ==
    /\ s \in DOMAIN worker /\ worker[s].pc = "complete_write"
    /\ worker'[s].pc = "done"

C24_SummaryFromAllTargets ==
    [][\A s \in ScanIds : C24_CompletedWrite(s) =>
          LET outcomes == worker[s].per_target IN
          /\ Len(outcomes) = Len(TargetList(scans'[s].targets))
          /\ scans'[s].status = COMPLETED
          /\ scans'[s].hosts_found = TotalHosts(outcomes)
          /\ scans'[s].vulnerabilities_found = TotalOpenPorts(outcomes)
          /\ scans'[s].risk_score =
                 Min(100, 10 * TotalOpenPorts(outcomes) + 5 * TotalHosts(outcomes))]_vars

\* a COMPLETED scan of three targets of which the first and the last
\* yielded a host and the second failed
C24_Witness ==
    \E s \in DOMAIN scans :
        /\ s \in DOMAIN worker /\ worker[s].pc = "done"
        /\ scans[s].status = COMPLETED /\ scans[s].hosts_found = 2
        /\ Len(worker[s].per_target) = 3
        /\ worker[s].per_target[1].succeeded /\ worker[s].per_target[1].hosts = 1
        /\ ~worker[s].per_target[2].succeeded
        /\ worker[s].per_target[3].succeeded /\ worker[s].per_target[3].hosts = 1

\* C25: any exception raised inside the background execution path
\* (a failed persistence write for RUNNING or COMPLETED included) leads to
\* an attempted write of status FAILED with completed_at and the error
\* message; a failure to save one host record is absorbed and does not by
\* itself keep the scan from becoming COMPLETED.
C25_Leaves(s, pc) == s \in DOMAIN worker /\ worker[s].pc = pc /\ worker'[s] # worker[s]

C25_Wrote(s, status) ==
    /\ s \in DOMAIN scans /\ s \in DOMAIN scans'
    /\ scans[s].status # status /\ scans'[s].status = status

C26_RunnerAcceptsWhatCreationAccepts ==
    (Validated /\ vout.is_valid) => vout.runner

\* C27: once a scan's persisted status is CANCELLED, the background worker
\* spawns no new external scan process for it: for a multi-target scan
\* cancelled while an earlier target is being scanned, execute_scan is not
\* invoked for the remaining targets.
C27_NoSpawnAfterCancel ==
    [][\A s \in ScanIds :
          (s \in DOMAIN scans /\ scans[s].status = CANCELLED /\ s \in DOMAIN worker) =>
              /\ worker'[s].exec_calls = worker[s].exec_calls
              /\ worker'[s].spawned = worker[s].spawned]_vars

\* C28: after delete_scan has returned true for a scan, no host record
\* linked to that scan id exists in the store in any later state and the
\* scan record is never recreated, even when the scan's background worker
\* was still running at the time of the delete (an update of an absent
\* document failing rather than creating it).
C28_NothingLeftAfterDelete ==
    (req.pc = "returned" /\ req.op = "delete" /\ req.result = "True") =>
        /\ req.scan \notin DOMAIN scans
        /\ hosts[req.scan] = {}

\* C30: when every executor call returns, the worker's writes succeed and
\* its thread is scheduled fairly, every scan created by create_scan that
\* is not deleted eventually has a terminal persisted status (COMPLETED,
\* FAILED or CANCELLED) and keeps one, the executor having been invoked at
\* most once per target token (no retries).
C30_Settled(s) ==
    \/ s \notin DOMAIN scans
    \/ scans[s].status \in TerminalStatus /\ worker[s].pc = "done"

C30_EventuallyTerminal ==
    /\ \A s \in ScanIds : <>[](s \in DOMAIN worker => C30_Settled(s))
    /\ [](\A s \in DOMAIN worker :
            /\ worker[s].exec_calls <= Len(TargetList(worker[s].targets))
            /\ worker[s].exec_calls = Len(worker[s].per_target)
            /\ worker[s].pc \in {"save", "complete_write"} =>
                   worker[s].exec_calls = Len(TargetList(worker[s].targets)))

\* a scan cancelled while its worker was running, whose worker then called
\* the executor once for each of its three targets and finished
C30_Witness ==
    \E s \in DOMAIN scans :
        /\ worker[s].pc = "done" /\ worker[s].exec_calls = 3
        /\ Len(TargetList(scans[s].targets)) = 3
        /\ scans[s].status = COMPLETED
        /\ scans[s].error_message = CancelFields.error_message

====
